---- MODULE Spec2Model ----
(***************************************************************************)
(* Limit order book and matching engine (lob_py.core).                     *)
(*                                                                         *)
(* Order objects live in a heap keyed by an object identity (oid), because *)
(* the Python code compares orders by identity (deque.remove) and shares   *)
(* one mutable object between a price queue and the id index.              *)
(* A price queue is a sequence of oids; the id index maps order_id -> oid. *)
(***************************************************************************)
EXTENDS Integers, Sequences, FiniteSets, TLC

\* ---- bounds of the model ------------------------------------------------
MaxPrice == 3      \* limit prices are drawn from 1..MaxPrice
MaxQty == 2        \* quantities are drawn from 0..MaxQty
MaxOrders == 2     \* Order objects constructed in one behaviour of Spec
MaxPlainOrders == 3 \* Order objects constructed in one behaviour of SpecPlain
MaxLevelOrders == 4 \* Order objects constructed in one behaviour of SpecLevels
MaxFlagOrders == 3 \* Order objects constructed in one behaviour of SpecFlags
MaxFlagPrice == 2  \* limit prices of SpecFlags are drawn from 1..MaxFlagPrice
MaxAmendOrders == 4 \* Order objects constructed in one behaviour of SpecAmend
MaxAmendPrice == 2 \* limit prices of SpecAmend are drawn from 1..MaxAmendPrice
MaxRaceOrders == 3 \* Order objects constructed in one behaviour of SpecRace
MaxRacePrice == 2  \* limit prices of SpecRace are drawn from 1..MaxRacePrice
MaxCacheOrders == 3 \* Order objects constructed in one behaviour of SpecCache
MaxSlices == 3      \* num_slices of a TWAPStrategy is drawn from 1..MaxSlices
MaxSliceDuration == 2 \* slice_duration of a TWAPStrategy is in 1..MaxSliceDuration
MaxStartTs == 1     \* start_ts of a TWAPStrategy is drawn from 0..MaxStartTs
MaxCalls == 3       \* on_market_data calls in one behaviour of SpecTwap
MaxInventory == 2   \* max_inventory of a MarketMakerStrategy is drawn from 0..MaxInventory
MaxMakerTs == 1     \* ts of a call on a MarketMakerStrategy is drawn from 0..MaxMakerTs
MaxRows == 3        \* records of the stream a ReplayEngine reads
MaxRowTs == 2       \* the ts of a record is drawn from 1..MaxRowTs
MaxRowPrice == 2    \* the price of a NEW record is drawn from 1..MaxRowPrice
MaxBacktestRows == 3 \* rows of the file a BacktestEngine reads
MaxBacktestTs == 2   \* the ts of a row is drawn from 0..MaxBacktestTs + 1

\* ---- Python None ----------------------------------------------------------
None == -1         \* None in a numeric field (price, quantity, matched_order_id)
NoneStr == "None"  \* None in a text field (client_id, reason)

ClientIds == {NoneStr, "a"}
Sides == {"BUY", "SELL"}
OrderTypes == {"LIMIT", "MARKET"}
TimeInForces == {"GTC", "IOC", "FOK"}
OrderFlags == {"POST_ONLY", "STP"}

VARIABLES
  bids,     \* LimitOrderBook.bids : PriceLevels(reverse=True)
  asks,     \* LimitOrderBook.asks : PriceLevels(reverse=False)
  orders,   \* LimitOrderBook._orders : order_id -> oid
  heap,     \* the Order objects referenced by the queues and the index
  nextOid,  \* identity of the next Order object constructed
  events,   \* event list returned by the last call
  fills,    \* history: one snapshot per fill of the last call
  stats,    \* LimitOrderBook._stats: total_orders, total_trades, total_volume
  lastOp,   \* history: the last call and its arguments
  outcome,  \* how the last call ended: "returned", "hung" or "raised";
            \* "racing" while calls of several threads are in progress
  adder,    \* a thread inside add_order: its position (pc) and its locals
  canceller, \* a thread inside cancel_order: its position and its locals
  reader,   \* a thread inside a read accessor: its position and its locals
  strategy, \* a TWAPStrategy object, None when none was constructed
  calls,    \* history: the on_market_data calls made on strategy, with their returns
  engine    \* a ReplayEngine or BacktestEngine inside its run: position and locals

vars == <<bids, asks, orders, heap, nextOid, stats, events, fills, lastOp, outcome,
          adder, canceller, reader, strategy, calls, engine>>

threads == <<adder, canceller, reader>>
\* the strategy object, the calls made on it and the engine that drives it
twap == <<strategy, calls, engine>>

\* ---- sequences as Python lists ---------------------------------------------
Range(s) == {s[i] : i \in DOMAIN s}

list_insert(a, i, x) == SubSeq(a, 1, i) \o <<x>> \o SubSeq(a, i + 1, Len(a))

list_remove(a, x) ==
  LET i == CHOOSE j \in DOMAIN a : a[j] = x /\ \A k \in 1..(j - 1) : a[k] # x
  IN SubSeq(a, 1, i - 1) \o SubSeq(a, i + 1, Len(a))

\* bisect.bisect_left(a, x, lo, hi) with Python's 0-based indices
RECURSIVE bisect_left(_, _, _, _)
bisect_left(a, x, lo, hi) ==
  IF lo < hi
  THEN LET mid == (lo + hi) \div 2
       IN IF a[mid + 1] < x THEN bisect_left(a, x, mid + 1, hi)
                            ELSE bisect_left(a, x, lo, mid)
  ELSE lo

insort_left(a, x) == list_insert(a, bisect_left(a, x, 0, Len(a)), x)

\* list.sort(reverse=True)
RECURSIVE sort_reverse(_)
sort_reverse(a) ==
  IF a = <<>> THEN <<>>
  ELSE LET i == CHOOSE j \in DOMAIN a : \A k \in DOMAIN a : a[k] <= a[j]
       IN <<a[i]>> \o sort_reverse(SubSeq(a, 1, i - 1) \o SubSeq(a, i + 1, Len(a)))

Min(x, y) == IF x <= y THEN x ELSE y

\* ---- Order and Event ---------------------------------------------------------
Order(order_id, client_id, side, type, price, quantity, time_in_force, flags, timestamp) ==
  [order_id |-> order_id, client_id |-> client_id, side |-> side, type |-> type,
   price |-> price, quantity |-> quantity, remaining_quantity |-> quantity,
   time_in_force |-> time_in_force, flags |-> flags, timestamp |-> timestamp]

has_flag(order, flag) == flag \in order.flags

\* timestamp is None unless the caller of Event passes one
Event(type, order_id, matched_order_id, price, quantity, reason) ==
  [type |-> type, order_id |-> order_id, matched_order_id |-> matched_order_id,
   price |-> price, quantity |-> quantity, reason |-> reason, timestamp |-> None]

\* Event(..., timestamp=timestamp)
At(event, timestamp) == [event EXCEPT !.timestamp = timestamp]

Reject(order_id, reason) == Event("REJECT", order_id, None, None, None, reason)
Cancel(order_id, reason) == Event("CANCEL", order_id, None, None, None, reason)
New(order_id) == Event("NEW", order_id, None, None, None, NoneStr)
Done(order_id, reason) == Event("DONE", order_id, None, None, None, reason)
Trade(order_id, matched_order_id, price, quantity) ==
  Event("TRADE", order_id, matched_order_id, price, quantity, NoneStr)
Amend(order_id, quantity) == Event("AMEND", order_id, None, None, quantity, NoneStr)

\* ---- PriceLevels -------------------------------------------------------------
\* levels : the dict price -> deque, as the sequence of its items in insertion
\*          order (the order in which Python iterates it)
\* prices : the list _prices
\* cached_best_size, cached_best_price : the cache of the best level's size
EmptyLevels ==
  [levels |-> <<>>, prices |-> <<>>, cached_best_size |-> None, cached_best_price |-> None]

\* LimitOrderBook(symbol, enable_cache=True)
enable_cache == TRUE

HasLevel(pl, price) == \E i \in DOMAIN pl.levels : pl.levels[i].price = price
LevelIdx(pl, price) == CHOOSE i \in DOMAIN pl.levels : pl.levels[i].price = price
Queue(pl, price) == pl.levels[LevelIdx(pl, price)].q
SetQueue(pl, price, q) ==
  [pl EXCEPT !.levels[LevelIdx(pl, price)].q = q]

\* insertion of a new price into the reverse-sorted list of the bid side
insert_price_reverse(prices, price) ==
  LET idx == bisect_left(prices, price, 0, Len(prices))
      ins == list_insert(prices, Len(prices) - idx, price)
  IN IF Len(ins) > 1 /\ ~(ins[1] >= ins[Len(ins)]) THEN sort_reverse(ins) ELSE ins

\* insertion of a new price into the ascending list of the ask side
insert_price_forward(prices, price) == insort_left(prices, price)

\* PriceLevels.add_order; ok = FALSE stands for the ValueError on a None price
PriceLevels_add_order(pl, reverse, price, oid) ==
  IF price = None THEN [ok |-> FALSE, pl |-> pl]
  ELSE LET withLevel ==
             IF HasLevel(pl, price) THEN pl
             ELSE [pl EXCEPT !.levels = Append(@, [price |-> price, q |-> <<>>]),
                             !.prices = IF reverse THEN insert_price_reverse(@, price)
                                                   ELSE insert_price_forward(@, price)]
           appended == SetQueue(withLevel, price, Append(Queue(withLevel, price), oid))
       IN [ok |-> TRUE,
           pl |-> IF enable_cache /\ appended.prices # <<>> /\ price = appended.prices[1]
                  THEN [appended EXCEPT !.cached_best_size = None, !.cached_best_price = None]
                  ELSE appended]

\* PriceLevels.remove_order; removed is its return value
PriceLevels_remove_order(pl, price, oid) ==
  IF ~HasLevel(pl, price) THEN [removed |-> FALSE, pl |-> pl]
  ELSE IF oid \notin Range(Queue(pl, price)) THEN [removed |-> FALSE, pl |-> pl]
  ELSE LET q == list_remove(Queue(pl, price), oid)
           i == LevelIdx(pl, price)
       IN IF q = <<>>
          THEN LET dropped == [pl EXCEPT !.levels = SubSeq(@, 1, i - 1)
                                                      \o SubSeq(@, i + 1, Len(@)),
                                         !.prices = IF price \in Range(@)
                                                    THEN list_remove(@, price) ELSE @]
               IN [removed |-> TRUE,
                   pl |-> IF enable_cache /\ pl.cached_best_price = price
                          THEN [dropped EXCEPT !.cached_best_size = None,
                                               !.cached_best_price = None]
                          ELSE dropped]
          ELSE [removed |-> TRUE,
                pl |-> IF enable_cache /\ pl.prices # <<>> /\ price = pl.prices[1]
                       THEN [SetQueue(pl, price, q) EXCEPT !.cached_best_size = None]
                       ELSE SetQueue(pl, price, q)]

\* PriceLevels.get_best: the price at the front of _prices, None if there is none
PriceLevels_get_best(pl) == IF pl.prices = <<>> THEN None ELSE pl.prices[1]

\* ---- LimitOrderBook: matching ---------------------------------------------------
\* A book value: the two sides, the id index and the objects they reference.
Book(b, a, o, h) == [bids |-> b, asks |-> a, orders |-> o, heap |-> h]

\* Result of a call: the book it leaves, the events it returns (none unless it
\* returns), the fills it made and how it ended.
Result(b, ev, fl, status) == [book |-> b, events |-> ev, fills |-> fl, status |-> status]

RemoveKey(f, k) == [x \in DOMAIN f \ {k} |-> f[x]]
PutKey(f, k, v) == [x \in DOMAIN f \cup {k} |-> IF x = k THEN v ELSE f[x]]

\* prices of the levels of a side that hold at least one order
RestingPrices(pl) == {pl.levels[i].price : i \in {j \in DOMAIN pl.levels : pl.levels[j].q # <<>>}}

\* a matching loop that takes the newest order of the level
next_maker_last(best_orders) == best_orders[Len(best_orders)]

\* maker_order = best_orders[0]
next_maker(best_orders) == best_orders[1]

\* the STP test of the matching loop
stp_skip(taker, maker) ==
  /\ has_flag(taker, "STP")
  /\ taker.client_id # NoneStr
  /\ maker.client_id = taker.client_id

\* a fill of the maker's whole remaining quantity, whatever the taker has left
fill_qty_maker(remaining, maker) == maker.remaining_quantity

\* fill_qty = min(remaining, maker_order.remaining_quantity)
fill_qty(remaining, maker) == Min(remaining, maker.remaining_quantity)

\* a matching loop that trades at the taker's limit
fill_price_taker(best_price, taker, maker) == taker.price

\* fill_price = best_price
fill_price(best_price, taker, maker) == best_price

\* the price-limit break at the top of the outer loop
price_limit_reached(taker, taker_side, best_price) ==
  /\ taker.type = "LIMIT"
  /\ taker.price # None
  /\ \/ taker_side = "BUY" /\ taker.price < best_price
     \/ taker_side = "SELL" /\ taker.price > best_price

\* a DONE stamped with the maker's own timestamp
done_timestamp_maker(taker, maker) == maker.timestamp

\* the timestamp of a maker's DONE: taker_order.timestamp
done_timestamp(taker, maker) == taker.timestamp

\* The inner loop: "while best_orders and remaining > 0" at one price level.
\* m = [mk, heap, orders, remaining, total_filled, events, fills, status]
RECURSIVE match_level(_, _, _)
match_level(m, taker, best_price) ==
  LET \* best_orders is the deque object itself: once remove_order has dropped
      \* its level from the dict, it is an empty deque
      best_orders == IF HasLevel(m.mk, best_price) THEN Queue(m.mk, best_price) ELSE <<>>
  IN IF ~(best_orders # <<>> /\ m.remaining > 0) THEN m
     ELSE
       LET moid == next_maker(best_orders)
           maker == m.heap[moid]
       IN IF stp_skip(taker, maker)
          THEN IF Len(best_orders) > 1
               THEN \* best_orders.popleft(); continue
                    match_level([m EXCEPT !.mk = SetQueue(m.mk, best_price, Tail(best_orders))],
                                taker, best_price)
               ELSE m   \* break
          ELSE
            LET qty == fill_qty(m.remaining, maker)
                price == fill_price(best_price, taker, maker)
                snap == [maker |-> maker, maker_oid |-> moid, taker_side |-> taker.side,
                         taker_remaining |-> m.remaining,
                         \* taker_order.remaining_quantity = remaining
                         taker_after |-> m.remaining - qty,
                         queue |-> [k \in DOMAIN best_orders |->
                                      [oid |-> best_orders[k],
                                       remaining_quantity |-> m.heap[best_orders[k]].remaining_quantity]],
                         resting |-> RestingPrices(m.mk)]
                left == maker.remaining_quantity - qty
                filled == [m EXCEPT !.remaining = @ - qty,
                                    !.total_filled = @ + qty,
                                    !.events = Append(@, At(Trade(taker.order_id, maker.order_id, price, qty),
                                                            taker.timestamp)),
                                    !.fills = Append(@, snap),
                                    !.heap[moid].remaining_quantity = left]
            IN IF left <= 0
               THEN \* maker done: popleft, remove_order, del _orders[...], DONE
                    LET popped == SetQueue(filled.mk, best_price, Tail(best_orders))
                        removed == PriceLevels_remove_order(popped, best_price, moid).pl
                        gone == [filled EXCEPT !.mk = removed, !.heap[moid].remaining_quantity = 0]
                    IN IF maker.order_id \notin DOMAIN gone.orders
                       THEN [gone EXCEPT !.status = "raised"]   \* KeyError
                       ELSE match_level([gone EXCEPT !.orders = RemoveKey(@, maker.order_id),
                                                     !.events = Append(@, At(Done(maker.order_id, NoneStr),
                                                                             done_timestamp(taker, maker)))],
                                        taker, best_price)
               ELSE match_level(filled, taker, best_price)

\* The outer loop: "while remaining > 0 and maker_side". Its body is a function
\* of the loop state, so an iteration that neither breaks nor changes the state
\* repeats forever: status "hung".
RECURSIVE match_loop(_, _, _)

\* the end of one iteration: m is the loop state before it, m2 the state after
\* the inner loop
loop_next(m, m2, taker, taker_side) ==
  IF m2.status # "run" THEN m2
  ELSE IF m2 = m THEN [m EXCEPT !.status = "hung"]
  ELSE match_loop(m2, taker, taker_side)

match_loop(m, taker, taker_side) ==
  IF ~(m.remaining > 0 /\ m.mk.prices # <<>>) THEN m
  ELSE LET best_price == PriceLevels_get_best(m.mk)
       IN IF price_limit_reached(taker, taker_side, best_price) THEN m
          ELSE loop_next(m, match_level(m, taker, best_price), taker, taker_side)

\* The FOK dry run: "for order in orders" of one level
RECURSIVE fok_level(_, _, _, _)
fok_level(q, h, total, remaining) ==
  IF q = <<>> THEN total
  ELSE LET t == total + h[q[1]].remaining_quantity
       IN IF t >= remaining THEN t ELSE fok_level(Tail(q), h, t, remaining)

\* The FOK dry run: "for price, orders in maker_side._levels.items()"
RECURSIVE fok_available(_, _, _, _, _, _)
fok_available(levels, h, taker, taker_side, total, remaining) ==
  IF levels = <<>> THEN total
  ELSE LET lv == levels[1]
       IN IF taker_side = "BUY" /\ taker.price # None /\ taker.price < lv.price THEN total
          ELSE IF taker_side = "SELL" /\ taker.price # None /\ taker.price > lv.price THEN total
          ELSE LET t == fok_level(lv.q, h, total, remaining)
               IN IF t >= remaining THEN t
                  ELSE fok_available(Tail(levels), h, taker, taker_side, t, remaining)

\* What follows the matching loop. A loop that raised or hangs leaves the book as
\* it was then; otherwise the residual policy and the taker's DONE.
residual(b, m, taker, oid, taker_side) ==
  LET booked == IF taker_side = "BUY"
                THEN Book(b.bids, m.mk, m.orders, m.heap)
                ELSE Book(m.mk, b.asks, m.orders, m.heap)
      rested == [taker EXCEPT !.remaining_quantity = m.remaining]
      done == IF m.remaining <= 0
              THEN <<At(Done(taker.order_id, NoneStr), taker.timestamp)>> ELSE <<>>
  IN IF m.status # "run" THEN Result(booked, <<>>, m.fills, m.status)
     ELSE IF m.remaining > 0
     THEN CASE taker.time_in_force = "GTC" ->
                 LET own == IF taker_side = "BUY" THEN booked.bids ELSE booked.asks
                     add == PriceLevels_add_order(own, taker_side = "BUY", taker.price, oid)
                 IN IF ~add.ok THEN Result(booked, <<>>, m.fills, "raised")   \* ValueError
                    ELSE Result(
                           Book(IF taker_side = "BUY" THEN add.pl ELSE booked.bids,
                                IF taker_side = "BUY" THEN booked.asks ELSE add.pl,
                                PutKey(booked.orders, taker.order_id, oid),
                                PutKey(booked.heap, oid, rested)),
                           Append(m.events, At(New(taker.order_id), taker.timestamp)) \o done, m.fills, "returned")
            [] taker.time_in_force = "IOC" ->
                 Result(booked, Append(m.events, At(Cancel(taker.order_id, "IOC_REMAINING"),
                                            taker.timestamp)) \o done,
                        m.fills, "returned")
            [] taker.time_in_force = "FOK" ->
                 Result(booked,
                        Append(m.events,
                               At(IF m.total_filled = 0
                                  THEN Reject(taker.order_id, "FOK_NOT_FILLED")
                                  ELSE Done(taker.order_id, "FOK_PARTIAL"),
                                  taker.timestamp)) \o done,
                        m.fills, "returned")
     ELSE Result(booked, m.events \o done, m.fills, "returned")

\* LimitOrderBook._match_against_book
match_against_book(b, taker, oid, taker_side) ==
  LET maker_side == IF taker_side = "BUY" THEN b.asks ELSE b.bids
      remaining == taker.remaining_quantity
      m0 == [mk |-> maker_side, heap |-> b.heap, orders |-> b.orders,
             remaining |-> remaining, total_filled |-> 0,
             events |-> <<>>, fills |-> <<>>, status |-> "run"]
  IN IF taker.time_in_force = "FOK"
        /\ fok_available(maker_side.levels, b.heap, taker, taker_side, 0, remaining) < remaining
     THEN Result(b, <<At(Reject(taker.order_id, "FOK_NOT_FILLED"), taker.timestamp)>>,
                 <<>>, "returned")
     ELSE residual(b, match_loop(m0, taker, taker_side), taker, oid, taker_side)

\* the test that sends a LIMIT order to the no-match branch
no_match(order, best) ==
  \/ best = None
  \/ order.side = "BUY" /\ order.price < best
  \/ order.side = "SELL" /\ order.price > best

\* the POST_ONLY test inside the no-match branch
post_only_would_match(order, best) ==
  /\ best # None
  /\ \/ order.side = "BUY" /\ order.price >= best
     \/ order.side = "SELL" /\ order.price <= best
  /\ has_flag(order, "POST_ONLY")

\* LimitOrderBook._match_limit_order
match_limit_order(b, order, oid) ==
  LET opposite == IF order.side = "BUY" THEN b.asks ELSE b.bids
      own == IF order.side = "BUY" THEN b.bids ELSE b.asks
      best == PriceLevels_get_best(opposite)
  IN IF no_match(order, best)
     THEN CASE order.time_in_force = "GTC" ->
                 IF post_only_would_match(order, best)
                 THEN Result(b, <<At(Reject(order.order_id, "POST_ONLY_WOULD_MATCH"),
                                        order.timestamp)>>, <<>>, "returned")
                 ELSE LET add == PriceLevels_add_order(own, order.side = "BUY", order.price, oid)
                      IN Result(Book(IF order.side = "BUY" THEN add.pl ELSE b.bids,
                                     IF order.side = "BUY" THEN b.asks ELSE add.pl,
                                     PutKey(b.orders, order.order_id, oid),
                                     PutKey(b.heap, oid, order)),
                                <<At(New(order.order_id), order.timestamp)>>, <<>>, "returned")
            [] order.time_in_force = "IOC" ->
                 Result(b, <<At(Cancel(order.order_id, "IOC_NO_MATCH"), order.timestamp)>>,
                        <<>>, "returned")
            [] order.time_in_force = "FOK" ->
                 Result(b, <<At(Reject(order.order_id, "FOK_NOT_FILLED"), order.timestamp)>>,
                        <<>>, "returned")
     ELSE match_against_book(b, order, oid, order.side)

\* LimitOrderBook._match_market_order
match_market_order(b, order, oid) == match_against_book(b, order, oid, order.side)

\* a validation that tests the price before the quantity
validate_price_first(order) ==
  IF order.type = "LIMIT" /\ order.price = None THEN "LIMIT_ORDER_MUST_HAVE_PRICE"
  ELSE IF order.type = "LIMIT" /\ order.price # None /\ order.price <= 0 THEN "INVALID_PRICE"
  ELSE IF order.quantity <= 0 THEN "INVALID_QUANTITY"
  ELSE NoneStr

\* The validation at the head of add_order: the reason of the REJECT it emits,
\* None if the order passes
validate(order) ==
  IF order.quantity <= 0 THEN "INVALID_QUANTITY"
  ELSE IF order.type = "LIMIT" /\ order.price = None THEN "LIMIT_ORDER_MUST_HAVE_PRICE"
  ELSE IF order.type = "LIMIT" /\ order.price # None /\ order.price <= 0 THEN "INVALID_PRICE"
  ELSE NoneStr

\* an add_order that enters the order in the index before it validates it
add_order_indexes_first(b, order, oid) ==
  IF validate(order) # NoneStr
  THEN Result([b EXCEPT !.orders = PutKey(@, order.order_id, oid),
                        !.heap = PutKey(@, oid, order)],
              <<At(Reject(order.order_id, validate(order)), order.timestamp)>>, <<>>, "returned")
  ELSE IF order.type = "MARKET" THEN match_market_order(b, order, oid)
  ELSE match_limit_order(b, order, oid)

\* LimitOrderBook.add_order, up to the statistics update
add_order(b, order, oid) ==
  IF validate(order) # NoneStr
  THEN Result(b, <<At(Reject(order.order_id, validate(order)), order.timestamp)>>, <<>>, "returned")
  ELSE IF order.type = "MARKET" THEN match_market_order(b, order, oid)
  ELSE match_limit_order(b, order, oid)

RECURSIVE trade_volume(_)
\* sum(e.quantity for e in events if e.type == EventType.TRADE and e.quantity)
trade_volume(evs) ==
  IF evs = <<>> THEN 0
  ELSE (IF evs[1].type = "TRADE" /\ evs[1].quantity # None THEN evs[1].quantity ELSE 0)
       + trade_volume(Tail(evs))

\* trade_count = sum(1 for e in events if e.type == EventType.TRADE)
trade_count(evs) == Cardinality({i \in DOMAIN evs : evs[i].type = "TRADE"})

\* The statistics update at the end of add_order: reached when the order passed
\* the validation and the matching returned. evs is the list add_order returns.
update_stats(st, order, evs, status) ==
  IF validate(order) = NoneStr /\ status = "returned"
  THEN [total_orders |-> st.total_orders + 1,
        total_trades |-> st.total_trades + trade_count(evs),
        total_volume |-> st.total_volume + trade_volume(evs)]
  ELSE st

\* ---- LimitOrderBook: cancel and amend ---------------------------------------------
\* a cancel_order that removes the order from its queue but not from the index
cancel_order_keeps_index(b, order_id) ==
  IF order_id \notin DOMAIN b.orders
  THEN Result(b, <<Reject(order_id, "ORDER_NOT_FOUND")>>, <<>>, "returned")
  ELSE LET oid == b.orders[order_id]
           order == b.heap[oid]
           rm == IF order.side = "BUY"
                 THEN PriceLevels_remove_order(b.bids, order.price, oid)
                 ELSE PriceLevels_remove_order(b.asks, order.price, oid)
       IN Result(Book(IF order.side = "BUY" THEN rm.pl ELSE b.bids,
                      IF order.side = "BUY" THEN b.asks ELSE rm.pl,
                      b.orders, b.heap),
                 <<Cancel(order_id, NoneStr)>>, <<>>, "returned")

\* LimitOrderBook.cancel_order
cancel_order(b, order_id) ==
  IF order_id \notin DOMAIN b.orders
  THEN Result(b, <<Reject(order_id, "ORDER_NOT_FOUND")>>, <<>>, "returned")
  ELSE LET oid == b.orders[order_id]
           order == b.heap[oid]
           price == order.price
       IN IF price = None
          THEN Result([b EXCEPT !.orders = RemoveKey(@, order_id)],
                      <<Cancel(order_id, "MARKET_ORDER_CANCEL")>>, <<>>, "returned")
          ELSE LET rm == IF order.side = "BUY"
                         THEN PriceLevels_remove_order(b.bids, price, oid)
                         ELSE PriceLevels_remove_order(b.asks, price, oid)
               IN IF rm.removed
                  THEN Result(Book(IF order.side = "BUY" THEN rm.pl ELSE b.bids,
                                   IF order.side = "BUY" THEN b.asks ELSE rm.pl,
                                   RemoveKey(b.orders, order_id), b.heap),
                              <<Cancel(order_id, NoneStr)>>, <<>>, "returned")
                  ELSE Result(b, <<Reject(order_id, "ORDER_NOT_FOUND_IN_BOOK")>>, <<>>, "returned")

\* the in-place branch of amend_order
amend_in_place(old_order, new_price, new_quantity) ==
  new_price = None /\ new_quantity # None /\ new_quantity < old_order.remaining_quantity

\* the Order that amend_order resubmits
amended_order(old_order, new_price, new_quantity) ==
  Order(old_order.order_id, old_order.client_id, old_order.side, old_order.type,
        IF new_price # None THEN new_price ELSE old_order.price,
        IF new_quantity # None THEN new_quantity ELSE old_order.quantity,
        old_order.time_in_force, old_order.flags, old_order.timestamp)

\* the cancel + new order branch of amend_order
amend_resubmit(b, old_order, order_id, new_price, new_quantity, oid) ==
  \* cancel_events = self.cancel_order(order_id); add_events = self.add_order(new_order)
  CHOOSE r \in
    {Result(a.book,
            IF a.status = "returned" THEN c.events \o a.events ELSE <<>>,
            a.fills, a.status) :
       <<c, a>> \in
         {<<cancelled, add_order(cancelled.book,
                                 amended_order(old_order, new_price, new_quantity), oid)>> :
            cancelled \in {cancel_order(b, order_id)}}} : TRUE

\* amend_order with an in-place branch that sends the order to the tail of its queue
amend_order_to_tail(b, order_id, new_price, new_quantity, oid) ==
  IF order_id \notin DOMAIN b.orders
  THEN Result(b, <<Reject(order_id, "ORDER_NOT_FOUND")>>, <<>>, "returned")
  ELSE LET old_order == b.heap[b.orders[order_id]]
           old == b.orders[order_id]
           side == IF old_order.side = "BUY" THEN b.bids ELSE b.asks
           moved == IF HasLevel(side, old_order.price)
                    THEN SetQueue(side, old_order.price,
                                  Append(list_remove(Queue(side, old_order.price), old), old))
                    ELSE side
       IN IF amend_in_place(old_order, new_price, new_quantity)
          THEN Result([b EXCEPT !.heap[old].remaining_quantity = new_quantity,
                                !.bids = IF old_order.side = "BUY" THEN moved ELSE @,
                                !.asks = IF old_order.side = "BUY" THEN @ ELSE moved],
                      <<Amend(order_id, new_quantity)>>, <<>>, "returned")
          ELSE amend_resubmit(b, old_order, order_id, new_price, new_quantity, oid)

\* LimitOrderBook.amend_order; oid is the identity of the Order it constructs
amend_order(b, order_id, new_price, new_quantity, oid) ==
  IF order_id \notin DOMAIN b.orders
  THEN Result(b, <<Reject(order_id, "ORDER_NOT_FOUND")>>, <<>>, "returned")
  ELSE LET old_order == b.heap[b.orders[order_id]]
       IN IF amend_in_place(old_order, new_price, new_quantity)
          THEN Result([b EXCEPT !.heap[b.orders[order_id]].remaining_quantity = new_quantity],
                      <<Amend(order_id, new_quantity)>>, <<>>, "returned")
          ELSE amend_resubmit(b, old_order, order_id, new_price, new_quantity, oid)

\* ---- the state machine -----------------------------------------------------------
\* objects still referenced by a queue or by the index
Live(b) ==
  UNION {Range(b.bids.levels[i].q) : i \in DOMAIN b.bids.levels}
  \cup UNION {Range(b.asks.levels[i].q) : i \in DOMAIN b.asks.levels}
  \cup Range(b.orders)

CurrentBook == Book(bids, asks, orders, heap)

\* the state a call leaves behind
Apply(r) ==
  /\ bids' = r.book.bids
  /\ asks' = r.book.asks
  /\ orders' = r.book.orders
  /\ heap' = [o \in Live(r.book) |-> r.book.heap[o]]
  /\ events' = r.events
  /\ fills' = r.fills
  /\ outcome' = r.status

Prices == 1..MaxPrice
\* the caller's clock: the timestamp it gives the order it submits under order_id
Clock(order_id) == order_id
Quantities == 1..MaxQty

\* the orders a caller submits: valid and invalid ones
NewOrders(order_id) ==
  {Order(order_id, c, s, "LIMIT", p, q, t, f, Clock(order_id)) :
     c \in ClientIds, s \in Sides, p \in Prices \cup {0, None},
     q \in Quantities \cup {0}, t \in TimeInForces, f \in SUBSET OrderFlags}
  \cup
  {Order(order_id, c, s, "MARKET", None, q, t, f, Clock(order_id)) :
     c \in ClientIds, s \in Sides,
     q \in Quantities \cup {0}, t \in TimeInForces, f \in SUBSET OrderFlags}

\* valid LIMIT and MARKET orders without client_id and flags
PlainOrders(order_id) ==
  {Order(order_id, NoneStr, s, "LIMIT", p, q, t, {}, Clock(order_id)) :
     s \in Sides, p \in Prices, q \in Quantities, t \in TimeInForces}
  \cup
  {Order(order_id, NoneStr, s, "MARKET", None, q, t, {}, Clock(order_id)) :
     s \in Sides, q \in Quantities, t \in TimeInForces}

\* valid LIMIT orders with every client_id and every set of flags
FlagOrders(order_id) ==
  {Order(order_id, c, s, "LIMIT", p, q, t, f, Clock(order_id)) :
     c \in ClientIds, s \in Sides, p \in 1..MaxFlagPrice, q \in Quantities,
     t \in TimeInForces, f \in SUBSET OrderFlags}

Init ==
  /\ bids = EmptyLevels
  /\ asks = EmptyLevels
  /\ orders = <<>>
  /\ heap = <<>>
  /\ nextOid = 1
  /\ stats = [total_orders |-> 0, total_trades |-> 0, total_volume |-> 0]
  /\ events = <<>>
  /\ fills = <<>>
  /\ lastOp = [op |-> "none"]
  /\ outcome = "idle"
  /\ adder = [pc |-> "idle"]
  /\ canceller = [pc |-> "idle"]
  /\ reader = [pc |-> "idle"]
  /\ strategy = None
  /\ calls = <<>>
  /\ engine = [pc |-> "idle"]

\* book.add_order(order): the caller constructs the Order, with a fresh order_id
Submit(order) ==
  /\ outcome = "idle"
  /\ \E r \in {add_order(CurrentBook, order, nextOid)} :
       /\ Apply(r)
       /\ stats' = update_stats(stats, order, r.events, r.status)
  /\ lastOp' = [op |-> "add", order |-> order]
  /\ nextOid' = nextOid + 1
  /\ UNCHANGED <<threads, twap>>

\* book.cancel_order(order_id) for the ids 1..max
Cancelling(max) ==
  /\ outcome = "idle"
  /\ \E order_id \in 1..max :
       /\ \E r \in {cancel_order(CurrentBook, order_id)} : Apply(r)
       /\ lastOp' = [op |-> "cancel", order_id |-> order_id]
  /\ UNCHANGED <<nextOid, stats, threads, twap>>

\* book.amend_order(order_id, new_price, new_quantity) for the ids 1..max and
\* new_price drawn from new_prices; the resubmitting branch constructs an Order
Amending(max, new_prices) ==
  /\ outcome = "idle"
  /\ \E order_id \in 1..max, new_price \in new_prices,
        new_quantity \in Quantities \cup {0, None} :
       LET resubmits == /\ order_id \in DOMAIN orders
                        /\ ~amend_in_place(heap[orders[order_id]], new_price, new_quantity)
       IN /\ resubmits => nextOid <= max
          /\ \E r \in {amend_order(CurrentBook, order_id, new_price, new_quantity, nextOid)} :
               /\ Apply(r)
               /\ stats' = IF resubmits
                           THEN update_stats(stats,
                                             amended_order(heap[orders[order_id]],
                                                           new_price, new_quantity),
                                             r.events, r.status)
                           ELSE stats
          /\ lastOp' = [op |-> "amend", order_id |-> order_id,
                        new_price |-> new_price, new_quantity |-> new_quantity]
          /\ nextOid' = IF resubmits THEN nextOid + 1 ELSE nextOid
  /\ UNCHANGED <<threads, twap>>

\* The caller takes the result of a call that returned or raised; the book is
\* ready for the next call. A call that hangs never gets here.
Continue ==
  /\ outcome \in {"returned", "raised"}
  /\ outcome' = "idle"
  /\ events' = <<>>
  /\ fills' = <<>>
  /\ lastOp' = [op |-> "none"]
  /\ UNCHANGED <<bids, asks, orders, heap, nextOid, stats, threads, twap>>

\* ---- Spec: every kind of order, cancels and amendments; MaxOrders objects
AddOrder == nextOid <= MaxOrders /\ \E order \in NewOrders(nextOid) : Submit(order)
CancelOrder == Cancelling(MaxOrders)
AmendOrder == Amending(MaxOrders, Prices \cup {0, None})

Next == AddOrder \/ CancelOrder \/ AmendOrder \/ Continue

Spec == Init /\ [][Next]_vars

\* ---- SpecPlain: orders without client_id and flags, and cancels;
\* MaxPlainOrders objects
AddPlainOrder == nextOid <= MaxPlainOrders /\ \E order \in PlainOrders(nextOid) : Submit(order)
CancelPlainOrder == Cancelling(MaxPlainOrders)

NextPlain == AddPlainOrder \/ CancelPlainOrder \/ Continue

SpecPlain == Init /\ [][NextPlain]_vars

\* ---- SpecLevels: as SpecPlain, with MaxLevelOrders objects: enough for three
\* price levels on one side and an order that meets them
AddLevelOrder == nextOid <= MaxLevelOrders /\ \E order \in PlainOrders(nextOid) : Submit(order)
CancelLevelOrder == Cancelling(MaxLevelOrders)

NextLevels == AddLevelOrder \/ CancelLevelOrder \/ Continue

SpecLevels == Init /\ [][NextLevels]_vars

\* ---- SpecFlags: LIMIT orders with clients and flags and cancels,
\* MaxFlagOrders objects
AddFlagOrder == nextOid <= MaxFlagOrders /\ \E order \in FlagOrders(nextOid) : Submit(order)
CancelFlagOrder == Cancelling(MaxFlagOrders)

NextFlags == AddFlagOrder \/ CancelFlagOrder \/ Continue

SpecFlags == Init /\ [][NextFlags]_vars

\* ---- SpecAmend: valid LIMIT orders and amendments; MaxAmendOrders objects
AmendOrders(order_id) ==
  {Order(order_id, NoneStr, s, "LIMIT", p, q, t, {}, Clock(order_id)) :
     s \in Sides, p \in 1..MaxAmendPrice, q \in Quantities, t \in TimeInForces}

AddAmendOrder == nextOid <= MaxAmendOrders /\ \E order \in AmendOrders(nextOid) : Submit(order)
AmendRestingOrder == Amending(MaxAmendOrders, (1..MaxAmendPrice) \cup {None})

NextAmend == AddAmendOrder \/ AmendRestingOrder \/ Continue

SpecAmend == Init /\ [][NextAmend]_vars

\* ---- threads: add_order and cancel_order statement by statement ----------------
\* add_order holds the book's lock from its matching to its return (core.py
\* 218); cancel_order takes no lock of the book, only PriceLevels.remove_order
\* locks its own side for the length of that call. A step below is one stretch
\* of statements of one thread; the other thread runs between steps.

\* the side a taker matches against
maker_side_of(b, order) == IF order.side = "BUY" THEN b.asks ELSE b.bids
with_maker_side(b, order, pl) ==
  IF order.side = "BUY" THEN [b EXCEPT !.asks = pl] ELSE [b EXCEPT !.bids = pl]

\* the deque the adder's best_orders refers to: the queue of its level, or the
\* emptied deque of a level that remove_order has dropped
best_orders_of(b, t) ==
  IF HasLevel(maker_side_of(b, t.order), t.best_price)
  THEN Queue(maker_side_of(b, t.order), t.best_price) ELSE <<>>

\* _match_limit_order up to the branch: the no-match branch as a whole, or the
\* entry of _match_against_book
adder_limit(b, t) ==
  IF no_match(t.order, PriceLevels_get_best(maker_side_of(b, t.order)))
  THEN [b |-> match_limit_order(b, t.order, t.oid).book,
        t |-> [t EXCEPT !.pc = "done",
                        !.events = match_limit_order(b, t.order, t.oid).events]]
  ELSE [b |-> b, t |-> [t EXCEPT !.pc = "outer"]]

\* the head of the outer loop: its test, get_best and the price limit
adder_outer(b, t) ==
  IF ~(t.remaining > 0 /\ maker_side_of(b, t.order).prices # <<>>)
  THEN [b |-> b, t |-> [t EXCEPT !.pc = "residual"]]
  ELSE IF price_limit_reached(t.order, t.order.side,
                              PriceLevels_get_best(maker_side_of(b, t.order)))
  THEN [b |-> b, t |-> [t EXCEPT !.pc = "residual"]]
  ELSE [b |-> b,
        t |-> [t EXCEPT !.pc = "inner",
                        !.best_price = PriceLevels_get_best(maker_side_of(b, t.order))]]

\* the inner loop from its test to the update of the quantities
adder_inner(b, t) ==
  IF ~(best_orders_of(b, t) # <<>> /\ t.remaining > 0)
  THEN [b |-> b, t |-> [t EXCEPT !.pc = "outer"]]
  ELSE LET moid == next_maker(best_orders_of(b, t))
           maker == b.heap[moid]
           qty == fill_qty(t.remaining, maker)
       IN IF stp_skip(t.order, maker)
          THEN IF Len(best_orders_of(b, t)) > 1
               THEN [b |-> with_maker_side(b, t.order,
                             SetQueue(maker_side_of(b, t.order), t.best_price,
                                      Tail(best_orders_of(b, t)))),
                     t |-> t]
               ELSE [b |-> b, t |-> [t EXCEPT !.pc = "outer"]]
          ELSE [b |-> [b EXCEPT !.heap[moid].remaining_quantity = @ - qty],
                t |-> [t EXCEPT !.pc = IF maker.remaining_quantity - qty <= 0
                                       THEN "popleft" ELSE "inner",
                                !.maker = moid,
                                !.remaining = @ - qty,
                                !.total_filled = @ + qty,
                                !.events = Append(@, At(Trade(t.order.order_id, maker.order_id,
                                                              fill_price(t.best_price, t.order, maker),
                                                              qty),
                                                        t.order.timestamp))]]

\* maker_order.remaining_quantity = 0; best_orders.popleft(): IndexError on an
\* empty deque
adder_popleft(b, t) ==
  IF best_orders_of(b, t) = <<>>
  THEN [b |-> [b EXCEPT !.heap[t.maker].remaining_quantity = 0],
        t |-> [t EXCEPT !.pc = "raised"]]
  ELSE [b |-> with_maker_side([b EXCEPT !.heap[t.maker].remaining_quantity = 0], t.order,
                SetQueue(maker_side_of(b, t.order), t.best_price, Tail(best_orders_of(b, t)))),
        t |-> [t EXCEPT !.pc = "remove"]]

\* maker_side.remove_order(best_price, maker_order)
adder_remove(b, t) ==
  [b |-> with_maker_side(b, t.order,
           PriceLevels_remove_order(maker_side_of(b, t.order), t.best_price, t.maker).pl),
   t |-> [t EXCEPT !.pc = "del"]]

\* del self._orders[maker_order.order_id]: KeyError on an absent id; then DONE
adder_del(b, t) ==
  IF b.heap[t.maker].order_id \notin DOMAIN b.orders
  THEN [b |-> b, t |-> [t EXCEPT !.pc = "raised"]]
  ELSE [b |-> [b EXCEPT !.orders = RemoveKey(@, b.heap[t.maker].order_id)],
        t |-> [t EXCEPT !.pc = "inner",
                        !.events = Append(@, At(Done(b.heap[t.maker].order_id, NoneStr),
                                                done_timestamp(t.order, b.heap[t.maker])))]]

\* the statements after the loops: the residual and the taker's DONE
adder_residual(b, t) ==
  CHOOSE x \in
    {[b |-> r.book,
      t |-> [t EXCEPT !.pc = IF r.status = "returned" THEN "done" ELSE "raised",
                      !.events = r.events]] :
       r \in {residual(b, [mk |-> maker_side_of(b, t.order), heap |-> b.heap,
                            orders |-> b.orders, remaining |-> t.remaining,
                            total_filled |-> t.total_filled, events |-> t.events,
                            fills |-> <<>>, status |-> "run"],
                       t.order, t.oid, t.order.side)}} : TRUE

\* cancel_order: the test of the index and order = self._orders[order_id]
canceller_check(b, t) ==
  IF t.order_id \notin DOMAIN b.orders
  THEN [b |-> b, t |-> [t EXCEPT !.pc = "done",
                                 !.events = <<Reject(t.order_id, "ORDER_NOT_FOUND")>>]]
  ELSE [b |-> b, t |-> [t EXCEPT !.pc = "remove", !.order = b.orders[t.order_id]]]

\* cancel_order: removed = side.remove_order(price, order)
canceller_remove(b, t) ==
  CHOOSE x \in
    {[b |-> IF b.heap[t.order].side = "BUY" THEN [b EXCEPT !.bids = rm.pl]
                                             ELSE [b EXCEPT !.asks = rm.pl],
      t |-> [t EXCEPT !.pc = "finish", !.removed = rm.removed]] :
       rm \in {PriceLevels_remove_order(IF b.heap[t.order].side = "BUY" THEN b.bids ELSE b.asks,
                                        b.heap[t.order].price, t.order)}} : TRUE

\* cancel_order: del self._orders[order_id] (KeyError on an absent id) and
\* CANCEL, or REJECT
canceller_finish(b, t) ==
  IF ~t.removed
  THEN [b |-> b, t |-> [t EXCEPT !.pc = "done",
                                 !.events = <<Reject(t.order_id, "ORDER_NOT_FOUND_IN_BOOK")>>]]
  ELSE IF t.order_id \notin DOMAIN b.orders
  THEN [b |-> b, t |-> [t EXCEPT !.pc = "raised"]]
  ELSE [b |-> [b EXCEPT !.orders = RemoveKey(@, t.order_id)],
        t |-> [t EXCEPT !.pc = "done", !.events = <<Cancel(t.order_id, NoneStr)>>]]

\* a step of the adder leaves the book r.b and the locals r.t; the statistics
\* are updated before add_order returns
AdderApply(r) ==
  /\ bids' = r.b.bids /\ asks' = r.b.asks /\ orders' = r.b.orders /\ heap' = r.b.heap
  /\ adder' = r.t
  /\ stats' = IF r.t.pc = "done"
              THEN update_stats(stats, r.t.order, r.t.events, "returned") ELSE stats
  /\ UNCHANGED <<nextOid, events, fills, lastOp, outcome, canceller, reader, twap>>

CancellerApply(r) ==
  /\ bids' = r.b.bids /\ asks' = r.b.asks /\ orders' = r.b.orders /\ heap' = r.b.heap
  /\ canceller' = r.t
  /\ UNCHANGED <<nextOid, stats, events, fills, lastOp, outcome, adder, reader, twap>>

AddLimit == adder.pc = "limit" /\ \E r \in {adder_limit(CurrentBook, adder)} : AdderApply(r)
AddOuter == adder.pc = "outer" /\ \E r \in {adder_outer(CurrentBook, adder)} : AdderApply(r)
AddInner == adder.pc = "inner" /\ \E r \in {adder_inner(CurrentBook, adder)} : AdderApply(r)
AddPopleft == adder.pc = "popleft" /\ \E r \in {adder_popleft(CurrentBook, adder)} : AdderApply(r)
AddRemove == adder.pc = "remove" /\ \E r \in {adder_remove(CurrentBook, adder)} : AdderApply(r)
AddDel == adder.pc = "del" /\ \E r \in {adder_del(CurrentBook, adder)} : AdderApply(r)
AddResidual ==
  adder.pc = "residual" /\ \E r \in {adder_residual(CurrentBook, adder)} : AdderApply(r)

CancelCheck ==
  canceller.pc = "check" /\ \E r \in {canceller_check(CurrentBook, canceller)} : CancellerApply(r)
CancelRemove ==
  canceller.pc = "remove" /\ \E r \in {canceller_remove(CurrentBook, canceller)} : CancellerApply(r)
CancelFinish ==
  canceller.pc = "finish" /\ \E r \in {canceller_finish(CurrentBook, canceller)} : CancellerApply(r)

\* the locals of a thread that enters add_order(order); start is the book then
AdderStart(order, oid) ==
  [pc |-> "limit", order |-> order, oid |-> oid, remaining |-> order.remaining_quantity,
   total_filled |-> 0, events |-> <<>>, best_price |-> None, maker |-> None,
   start |-> CurrentBook]

\* ---- SpecRace: one thread in add_order, one in cancel_order --------------------
\* valid LIMIT GTC orders that build the book, and the takers of the race
RaceOrders(order_id) ==
  {Order(order_id, NoneStr, s, "LIMIT", p, q, "GTC", {}, Clock(order_id)) :
     s \in Sides, p \in 1..MaxRacePrice, q \in Quantities}
RaceTakers(order_id) ==
  {Order(order_id, NoneStr, s, "LIMIT", p, q, t, {}, Clock(order_id)) :
     s \in Sides, p \in 1..MaxRacePrice, q \in Quantities, t \in {"GTC", "IOC"}}

AddRaceOrder == nextOid <= MaxRaceOrders /\ \E order \in RaceOrders(nextOid) : Submit(order)

\* two threads call add_order(order) and cancel_order(order_id) on the book
StartCancelRace ==
  /\ outcome = "idle"
  /\ nextOid <= MaxRaceOrders
  /\ \E order \in RaceTakers(nextOid), order_id \in DOMAIN orders :
       /\ adder' = AdderStart(order, nextOid)
       /\ canceller' = [pc |-> "check", order_id |-> order_id, order |-> None,
                        removed |-> FALSE, events |-> <<>>]
  /\ outcome' = "racing"
  /\ nextOid' = nextOid + 1
  /\ UNCHANGED <<bids, asks, orders, heap, stats, events, fills, lastOp, reader, twap>>

NextRace ==
  \/ AddRaceOrder \/ Continue \/ StartCancelRace
  \/ AddLimit \/ AddOuter \/ AddInner \/ AddPopleft \/ AddRemove \/ AddDel \/ AddResidual
  \/ CancelCheck \/ CancelRemove \/ CancelFinish

SpecRace == Init /\ [][NextRace]_vars

\* ---- vocabulary of the properties ---------------------------------------------------
IsTrade(e) == e.type = "TRADE"
Trades(evs) == SelectSeq(evs, IsTrade)

RECURSIVE SumQuantity(_)
SumQuantity(evs) == IF evs = <<>> THEN 0 ELSE evs[1].quantity + SumQuantity(Tail(evs))

RECURSIVE SumRemaining(_, _)
SumRemaining(q, h) ==
  IF q = <<>> THEN 0 ELSE h[q[1]].remaining_quantity + SumRemaining(Tail(q), h)

PriceEligible(order, price) ==
  \/ order.type = "MARKET"
  \/ order.side = "BUY" /\ price <= order.price
  \/ order.side = "SELL" /\ price >= order.price

\* total remaining_quantity queued on a side at the levels an order may trade with
RECURSIVE EligibleFrom(_, _, _, _)
EligibleFrom(order, levels, h, i) ==
  IF i > Len(levels) THEN 0
  ELSE (IF PriceEligible(order, levels[i].price) THEN SumRemaining(levels[i].q, h) ELSE 0)
       + EligibleFrom(order, levels, h, i + 1)

EligibleTotal(order, b) ==
  EligibleFrom(order, IF order.side = "BUY" THEN b.asks.levels ELSE b.bids.levels, b.heap, 1)

QueuedOids(pl) == UNION {Range(pl.levels[i].q) : i \in DOMAIN pl.levels}

\* the places (side, level, position) at which an order with this id is queued
PlacesIn(side, pl, id) ==
  UNION {{<<side, i, k>> : k \in {j \in DOMAIN pl.levels[i].q :
                                    heap[pl.levels[i].q[j]].order_id = id}} :
         i \in DOMAIN pl.levels}

PlacesOf(id) == PlacesIn("BUY", bids, id) \cup PlacesIn("SELL", asks, id)

Quiescent == outcome \in {"idle", "returned"}


\* the last call was add_order(order) for a valid LIMIT order
AddedLimit(op) == op.op = "add" /\ op.order.type = "LIMIT"

\* ---- C1 -------------------------------------------------------------------------
\* C1: price priority. In every call that returned, each fill was made with a
\* maker at the best price then resting on the opposite side: no queue of the
\* maker side held an order at a lower price (BUY taker) or at a higher price
\* (SELL taker) than the maker's.
C1_PricePriority ==
  outcome = "returned" =>
    \A i \in DOMAIN fills :
      \A p \in fills[i].resting :
        IF fills[i].taker_side = "BUY" THEN fills[i].maker.price <= p
                                       ELSE fills[i].maker.price >= p

\* ---- C2 -------------------------------------------------------------------------
\* C2: time priority. Object identities grow with construction and an order is
\* appended to a queue only by the call that constructs it, so a smaller oid at
\* the same level means an earlier arrival. No fill takes a maker B while an
\* earlier arrival A with remaining_quantity > 0 is queued at B's level; and a
\* maker that a returned call filled partially is the head of its queue.
C2_TimePriority ==
  \A i \in DOMAIN fills :
    LET f == fills[i]
        makerSide == IF f.taker_side = "BUY" THEN asks ELSE bids
    IN /\ \A k \in DOMAIN f.queue :
            ~(f.queue[k].oid < f.maker_oid /\ f.queue[k].remaining_quantity > 0)
       /\ (outcome = "returned" /\ f.maker.remaining_quantity > f.taker_remaining)
            => /\ HasLevel(makerSide, f.maker.price)
               /\ Queue(makerSide, f.maker.price) # <<>>
               /\ Queue(makerSide, f.maker.price)[1] = f.maker_oid
               /\ heap[f.maker_oid].remaining_quantity
                    = f.maker.remaining_quantity - f.taker_remaining

\* C2 witness: a returned call filled the head of a queue of two partially
C2_Witness ==
  /\ outcome = "returned"
  /\ \E i \in DOMAIN fills :
       /\ Len(fills[i].queue) >= 2
       /\ fills[i].maker.remaining_quantity > fills[i].taker_remaining

C4_AddOrderReturns == lastOp.op = "add" => outcome # "hung"

\* ---- C5 -------------------------------------------------------------------------
\* C5: between calls, when both sides hold orders, every resting buy price is
\* below every resting sell price and the best bid price reported is below the
\* best ask price reported.
C5_BookNotCrossed ==
  (Quiescent /\ RestingPrices(bids) # {} /\ RestingPrices(asks) # {}) =>
    /\ \A pb \in RestingPrices(bids), pa \in RestingPrices(asks) : pb < pa
    /\ PriceLevels_get_best(bids) < PriceLevels_get_best(asks)

\* ---- C6 -------------------------------------------------------------------------
\* C6: between calls the id index is exactly the set of queued orders: every id
\* of the index is queued at exactly one place, and every queued order is the
\* order the index holds under its id.
C6_IndexIsRestingOrders ==
  Quiescent =>
    /\ \A id \in DOMAIN orders : Cardinality(PlacesOf(id)) = 1
    /\ \A oid \in QueuedOids(bids) \cup QueuedOids(asks) :
         /\ heap[oid].order_id \in DOMAIN orders
         /\ orders[heap[oid].order_id] = oid

\* ---- C7 -------------------------------------------------------------------------
\* a LIMIT order that crosses the best price of the opposite side
Crosses(order, b) ==
  LET best == PriceLevels_get_best(IF order.side = "BUY" THEN b.asks ELSE b.bids)
  IN /\ best # None
     /\ \/ order.side = "BUY" /\ order.price >= best
        \/ order.side = "SELL" /\ order.price <= best

\* C7: add_order of a POST_ONLY GTC LIMIT order that crosses returns the single
\* event REJECT POST_ONLY_WOULD_MATCH, makes no fill and leaves both sides and
\* the index as they were.
C7_PostOnlyRejected ==
  [][(/\ AddedLimit(lastOp')
      /\ lastOp'.order.time_in_force = "GTC"
      /\ has_flag(lastOp'.order, "POST_ONLY")
      /\ Crosses(lastOp'.order, CurrentBook))
     => (/\ outcome' = "returned"
         /\ events' = <<At(Reject(lastOp'.order.order_id, "POST_ONLY_WOULD_MATCH"),
                          lastOp'.order.timestamp)>>
         /\ fills' = <<>>
         /\ UNCHANGED <<bids, asks, orders, heap>>)]_vars

\* ---- C8 -------------------------------------------------------------------------
\* C8: add_order of a FOK order either returns the single event REJECT
\* FOK_NOT_FILLED, having made no fill and changed no resting order, or returns
\* with fills that sum to the order's quantity; the order never rests.
C8_FillOrKill ==
  [][(lastOp'.op = "add" /\ lastOp'.order.time_in_force = "FOK")
     => (/\ outcome' = "returned"
         /\ lastOp'.order.order_id \notin DOMAIN orders'
         /\ \/ /\ events' = <<At(Reject(lastOp'.order.order_id, "FOK_NOT_FILLED"),
                             lastOp'.order.timestamp)>>
               /\ fills' = <<>>
               /\ UNCHANGED <<bids, asks, orders, heap>>
            \/ /\ Len(Trades(events')) = Len(fills')
               /\ SumQuantity(Trades(events')) = lastOp'.order.quantity)]_vars

\* ---- C9 -------------------------------------------------------------------------
\* C9: add_order of a FOK LIMIT order returns REJECT FOK_NOT_FILLED exactly when
\* the remaining_quantity queued on the opposite side at price-eligible levels
\* is less than the order's quantity.
C9_FokRejectedIffInsufficient ==
  [][(AddedLimit(lastOp') /\ lastOp'.order.time_in_force = "FOK")
     => ((outcome' = "returned"
          /\ events' = <<At(Reject(lastOp'.order.order_id, "FOK_NOT_FILLED"),
                             lastOp'.order.timestamp)>>)
         <=> EligibleTotal(lastOp'.order, CurrentBook) < lastOp'.order.quantity)]_vars

\* ---- C10 ------------------------------------------------------------------------
\* C10: add_order of a GTC or IOC LIMIT order that finds some price-eligible
\* quantity, but less than its own, returns. A GTC order then rests at the tail
\* of the queue at its price on its own side with the unfilled quantity, and the
\* last event is NEW; an IOC order is in no queue and not in the index, and the
\* last event is CANCEL IOC_REMAINING.
C10_ResidualPolicy ==
  [][(/\ AddedLimit(lastOp')
      /\ lastOp'.order.time_in_force \in {"GTC", "IOC"}
      /\ EligibleTotal(lastOp'.order, CurrentBook) > 0
      /\ EligibleTotal(lastOp'.order, CurrentBook) < lastOp'.order.quantity)
     => LET order == lastOp'.order
            left == order.quantity - EligibleTotal(order, CurrentBook)
            own == IF order.side = "BUY" THEN bids' ELSE asks'
        IN /\ outcome' = "returned"
           /\ SumQuantity(Trades(events')) = order.quantity - left
           /\ IF order.time_in_force = "GTC"
              THEN /\ events'[Len(events')] = At(New(order.order_id), order.timestamp)
                   /\ order.order_id \in DOMAIN orders'
                   /\ heap'[orders'[order.order_id]].remaining_quantity = left
                   /\ HasLevel(own, order.price)
                   /\ Queue(own, order.price)[Len(Queue(own, order.price))]
                        = orders'[order.order_id]
              ELSE /\ events'[Len(events')]
                        = At(Cancel(order.order_id, "IOC_REMAINING"), order.timestamp)
                   /\ order.order_id \notin DOMAIN orders'
                   /\ \A oid \in DOMAIN heap' : heap'[oid].order_id # order.order_id]_vars

\* ---- C11 ------------------------------------------------------------------------
\* the best price at which orders rest on the side opposite to an order
BestOpposite(order, b) ==
  LET resting == RestingPrices(IF order.side = "BUY" THEN b.asks ELSE b.bids)
  IN IF resting = {} THEN None
     ELSE CHOOSE p \in resting :
            \A r \in resting : IF order.side = "BUY" THEN p <= r ELSE p >= r

\* the resting order that price-time priority puts first in line for an order:
\* the head of the queue at the best opposite price (None if nothing rests)
FirstInLine(order, b) ==
  IF BestOpposite(order, b) = None THEN None
  ELSE Queue(IF order.side = "BUY" THEN b.asks ELSE b.bids, BestOpposite(order, b))[1]

\* C11: add_order of an order with the STP flag and a client_id makes no fill
\* with a maker of the same client_id. add_order of an order with a client_id
\* but without the STP flag (and without POST_ONLY; if FOK, with enough
\* price-eligible quantity resting), whose first maker in line is price-eligible
\* and has the same client_id, trades with that maker first.
C11_SelfTradePrevention ==
  [][lastOp'.op = "add" =>
       LET order == lastOp'.order
           first == FirstInLine(order, CurrentBook)
       IN /\ (has_flag(order, "STP") /\ order.client_id # NoneStr)
               => \A i \in DOMAIN fills' : fills'[i].maker.client_id # order.client_id
          /\ (/\ order.quantity > 0
              /\ order.client_id # NoneStr
              /\ ~has_flag(order, "STP")
              /\ ~has_flag(order, "POST_ONLY")
              /\ order.time_in_force = "FOK"
                   => EligibleTotal(order, CurrentBook) >= order.quantity
              /\ first # None
              /\ heap[first].client_id = order.client_id
              /\ PriceEligible(order, heap[first].price))
               => /\ fills' # <<>>
                  /\ fills'[1].maker_oid = first]_vars

\* ---- C12 ------------------------------------------------------------------------
\* the resting orders of the opposite side at the levels an order may trade with
EligibleMakers(order, b) ==
  LET pl == IF order.side = "BUY" THEN b.asks ELSE b.bids
  IN UNION {Range(pl.levels[i].q) :
              i \in {j \in DOMAIN pl.levels : PriceEligible(order, pl.levels[j].price)}}

\* an order rests at the tail of the queue at its price on its own side, with
\* this remaining_quantity, and the index holds it
RestsAtTail(order, remaining, b) ==
  LET own == IF order.side = "BUY" THEN b.bids ELSE b.asks
  IN /\ order.order_id \in DOMAIN b.orders
     /\ b.heap[b.orders[order.order_id]].remaining_quantity = remaining
     /\ HasLevel(own, order.price)
     /\ Queue(own, order.price) # <<>>
     /\ Queue(own, order.price)[Len(Queue(own, order.price))] = b.orders[order.order_id]

\* C12: add_order of a GTC LIMIT order with the STP flag (and without POST_ONLY)
\* that finds price-eligible resting orders, all of them of its own client_id,
\* returns the single event NEW, makes no fill, and the order rests at the tail
\* of the queue at its price on its own side with its whole quantity.
C12_StpTakerRests ==
  [][(/\ AddedLimit(lastOp')
      /\ lastOp'.order.time_in_force = "GTC"
      /\ has_flag(lastOp'.order, "STP")
      /\ ~has_flag(lastOp'.order, "POST_ONLY")
      /\ lastOp'.order.client_id # NoneStr
      /\ EligibleMakers(lastOp'.order, CurrentBook) # {}
      /\ \A oid \in EligibleMakers(lastOp'.order, CurrentBook) :
           heap[oid].client_id = lastOp'.order.client_id)
     => (/\ outcome' = "returned"
         /\ fills' = <<>>
         /\ events' = <<At(New(lastOp'.order.order_id), lastOp'.order.timestamp)>>
         /\ RestsAtTail(lastOp'.order, lastOp'.order.quantity,
                        Book(bids', asks', orders', heap')))]_vars

\* ---- C13 ------------------------------------------------------------------------
\* total remaining_quantity resting at the best price opposite to an order
BestLevelQuantity(order, b) ==
  LET pl == IF order.side = "BUY" THEN b.asks ELSE b.bids
  IN IF BestOpposite(order, b) = None THEN 0
     ELSE SumRemaining(Queue(pl, BestOpposite(order, b)), b.heap)

\* the prices of a sequence of TRADE events never get worse for the maker side's
\* priority: ascending for a BUY taker, descending for a SELL taker
BestFirst(side, trades) ==
  \A i, j \in DOMAIN trades :
    i < j => IF side = "BUY" THEN trades[i].price <= trades[j].price
                             ELSE trades[i].price >= trades[j].price

\* C13: add_order of a valid order without flags whose best opposite level is
\* price-eligible and smaller than the order (if FOK, with enough price-eligible
\* quantity resting) returns; its TRADEs come in best-first price order and
\* their quantities sum to min(quantity, price-eligible quantity resting): it
\* stops only when filled or when no price-eligible level is left.
C13_SweepsLevelsBestFirst ==
  [][(/\ lastOp'.op = "add"
      /\ lastOp'.order.quantity > 0
      /\ BestOpposite(lastOp'.order, CurrentBook) # None
      /\ PriceEligible(lastOp'.order, BestOpposite(lastOp'.order, CurrentBook))
      /\ lastOp'.order.quantity > BestLevelQuantity(lastOp'.order, CurrentBook)
      /\ lastOp'.order.time_in_force = "FOK"
           => EligibleTotal(lastOp'.order, CurrentBook) >= lastOp'.order.quantity)
     => (/\ outcome' = "returned"
         /\ BestFirst(lastOp'.order.side, Trades(events'))
         /\ SumQuantity(Trades(events'))
              = Min(lastOp'.order.quantity, EligibleTotal(lastOp'.order, CurrentBook)))]_vars

\* ---- C14 ------------------------------------------------------------------------
\* C14: every add_order call for a MARKET order returns its event list (it
\* neither raises nor stays in the matching loop), and no MARKET order is ever
\* held in a price queue or in the index.
C14_MarketOrderReturns ==
  /\ (lastOp.op = "add" /\ lastOp.order.type = "MARKET") => outcome = "returned"
  /\ \A oid \in DOMAIN heap : heap[oid].type # "MARKET"

\* ---- C15 ------------------------------------------------------------------------
\* the reason the admission validation gives for an order, testing in the order
\* quantity, missing LIMIT price, non-positive LIMIT price; None if it passes
FirstFailingCheck(order) ==
  CASE order.quantity <= 0 -> "INVALID_QUANTITY"
    [] order.quantity > 0 /\ order.type = "LIMIT" /\ order.price = None
         -> "LIMIT_ORDER_MUST_HAVE_PRICE"
    [] order.quantity > 0 /\ order.type = "LIMIT" /\ order.price # None /\ order.price <= 0
         -> "INVALID_PRICE"
    [] OTHER -> NoneStr

\* C15: add_order of an order that fails the admission validation returns the
\* single event REJECT with the reason of the first failing check (quantity,
\* then missing price, then non-positive price), makes no fill, and leaves the
\* queues, the index and the statistics as they were.
C15_ValidationOrder ==
  [][(lastOp'.op = "add" /\ FirstFailingCheck(lastOp'.order) # NoneStr)
     => (/\ outcome' = "returned"
         /\ events' = <<At(Reject(lastOp'.order.order_id, FirstFailingCheck(lastOp'.order)),
                          lastOp'.order.timestamp)>>
         /\ fills' = <<>>
         /\ UNCHANGED <<bids, asks, orders, heap, stats>>)]_vars

\* C15 witness: on a book that holds an order and has counted it, an order with
\* quantity 0 and no price was rejected for its quantity
C15_Witness ==
  /\ lastOp.op = "add"
  /\ lastOp.order.type = "LIMIT"
  /\ lastOp.order.quantity <= 0
  /\ lastOp.order.price = None
  /\ events = <<At(Reject(lastOp.order.order_id, "INVALID_QUANTITY"), lastOp.order.timestamp)>>
  /\ orders # <<>>
  /\ stats.total_orders = 1

\* ---- C16 ------------------------------------------------------------------------
\* C16: in the events add_order returns for an IOC order, LIMIT or MARKET, a
\* CANCEL has the reason IOC_NO_MATCH exactly when no TRADE precedes it and the
\* reason IOC_REMAINING exactly when at least one TRADE precedes it.
C16_IocCancelReason ==
  (lastOp.op = "add" /\ lastOp.order.time_in_force = "IOC" /\ outcome = "returned") =>
    \A i \in DOMAIN events :
      events[i].type = "CANCEL" =>
        LET traded == \E k \in 1..(i - 1) : events[k].type = "TRADE"
        IN /\ events[i].reason = "IOC_NO_MATCH" <=> ~traded
           /\ events[i].reason = "IOC_REMAINING" <=> traded

\* ---- C17 ------------------------------------------------------------------------
\* a LIMIT order that does not cross: nothing rests on the opposite side, or the
\* best resting opposite price is not price-eligible for it
NonCrossing(order, b) ==
  \/ BestOpposite(order, b) = None
  \/ ~PriceEligible(order, BestOpposite(order, b))

\* C17: add_order of a valid GTC LIMIT order that does not cross, whatever its
\* flags, returns the single event NEW and makes no fill; the order then rests
\* at the tail of the queue at its price on its own side with remaining_quantity
\* = quantity, and the index returns it under its id.
C17_NonCrossingRests ==
  [][(/\ AddedLimit(lastOp')
      /\ validate(lastOp'.order) = NoneStr
      /\ lastOp'.order.time_in_force = "GTC"
      /\ NonCrossing(lastOp'.order, CurrentBook))
     => (/\ outcome' = "returned"
         /\ events' = <<At(New(lastOp'.order.order_id), lastOp'.order.timestamp)>>
         /\ fills' = <<>>
         /\ RestsAtTail(lastOp'.order, lastOp'.order.quantity,
                        Book(bids', asks', orders', heap'))
         /\ heap'[orders'[lastOp'.order.order_id]] = lastOp'.order)]_vars

\* ---- C18 ------------------------------------------------------------------------
\* the last call was cancel_order or amend_order
CancelOrAmend(op) == op.op \in {"cancel", "amend"}

\* C18: cancel_order and amend_order for an id that the index does not hold
\* return the single event REJECT ORDER_NOT_FOUND and change nothing.
\* cancel_order for an id whose order is queued returns the single event CANCEL;
\* afterwards the index does not hold the id, the order is in no queue, and
\* another cancel_order for the id gives REJECT ORDER_NOT_FOUND.
C18_CancelAndNotFound ==
  [][/\ (CancelOrAmend(lastOp') /\ lastOp'.order_id \notin DOMAIN orders)
          => /\ outcome' = "returned"
             /\ events' = <<Reject(lastOp'.order_id, "ORDER_NOT_FOUND")>>
             /\ UNCHANGED <<bids, asks, orders, heap, stats>>
     /\ (/\ lastOp'.op = "cancel"
         /\ lastOp'.order_id \in DOMAIN orders
         /\ orders[lastOp'.order_id] \in QueuedOids(bids) \cup QueuedOids(asks))
          => /\ outcome' = "returned"
             /\ events' = <<Cancel(lastOp'.order_id, NoneStr)>>
             /\ lastOp'.order_id \notin DOMAIN orders'
             /\ orders[lastOp'.order_id] \notin QueuedOids(bids') \cup QueuedOids(asks')
             /\ cancel_order(Book(bids', asks', orders', heap'), lastOp'.order_id).events
                  = <<Reject(lastOp'.order_id, "ORDER_NOT_FOUND")>>]_vars

\* C18 witness: while another order rests, cancel_order was rejected for an id
\* that had been submitted before and is no longer in the index
C18_Witness ==
  /\ lastOp.op = "cancel"
  /\ lastOp.order_id < nextOid
  /\ events = <<Reject(lastOp.order_id, "ORDER_NOT_FOUND")>>
  /\ orders # <<>>

\* ---- C19 ------------------------------------------------------------------------
\* the events of a call are a single REJECT
SingleReject(evs) == Len(evs) = 1 /\ evs[1].type = "REJECT"

\* C19: a call of add_order, cancel_order or amend_order that returns a single
\* REJECT leaves the price levels, the queues, the remaining quantities of the
\* queued orders and the index as they were before the call.
C19_RejectChangesNothing ==
  [][(/\ lastOp'.op \in {"add", "cancel", "amend"}
      /\ outcome' = "returned"
      /\ SingleReject(events'))
     => UNCHANGED <<bids, asks, orders, heap>>]_vars

\* C19 witness: a FOK order was rejected after the dry run had found some, but
\* not enough, price-eligible quantity
C19_Witness ==
  /\ lastOp.op = "add"
  /\ lastOp.order.time_in_force = "FOK"
  /\ outcome = "returned"
  /\ SingleReject(events)
  /\ events[1].reason = "FOK_NOT_FILLED"
  /\ validate(lastOp.order) = NoneStr
  /\ EligibleTotal(lastOp.order, CurrentBook) > 0

\* ---- the read accessors of the book ----

\* PriceLevels.get_levels: (price, total size) of the first max_levels prices
get_levels(pl, h, max_levels) ==
  [i \in 1..Min(Len(pl.prices), max_levels) |->
     <<pl.prices[i],
       IF HasLevel(pl, pl.prices[i]) THEN SumRemaining(Queue(pl, pl.prices[i]), h) ELSE 0>>]

\* the body shared by get_best_bid and get_best_ask: value is the returned
\* (price, size) or None, pl the side with the cache as the call leaves it
best_of(pl, h) ==
  IF PriceLevels_get_best(pl) = None THEN [value |-> <<>>, pl |-> pl]
  ELSE LET price == PriceLevels_get_best(pl)
           size == IF HasLevel(pl, price) THEN SumRemaining(Queue(pl, price), h) ELSE 0
       IN IF enable_cache /\ pl.cached_best_price = price /\ pl.cached_best_size # None
          THEN [value |-> <<price, pl.cached_best_size>>, pl |-> pl]
          ELSE [value |-> <<price, size>>,
                pl |-> IF enable_cache
                       THEN [pl EXCEPT !.cached_best_size = size, !.cached_best_price = price]
                       ELSE pl]

\* LimitOrderBook.get_best_bid and get_best_ask; <<>> stands for None
get_best_bid(b) == best_of(b.bids, b.heap)
get_best_ask(b) == best_of(b.asks, b.heap)

\* LimitOrderBook.get_depth with its default of 10 levels
get_depth(b) == [bids |-> get_levels(b.bids, b.heap, 10), asks |-> get_levels(b.asks, b.heap, 10)]

\* LimitOrderBook.get_order: the Order object indexed under order_id, None if absent
get_order(b, order_id) == IF order_id \in DOMAIN b.orders THEN b.orders[order_id] ELSE None

\* what a caller reads off the book: get_best_bid, get_best_ask and get_depth,
\* and the id index as the object and the fields get_order returns for every id;
\* book is the book as the two get_best calls leave it
Readout(b) ==
  [best_bid |-> get_best_bid(b).value,
   best_ask |-> get_best_ask(b).value,
   depth |-> get_depth(b),
   index |-> [id \in DOMAIN b.orders |-> <<get_order(b, id), b.heap[get_order(b, id)]>>],
   book |-> [b EXCEPT !.bids = get_best_bid(b).pl, !.asks = get_best_ask(b).pl]]

\* the orders of the round trip: non-crossing GTC LIMIT orders under the fresh id
RoundTripOrders(b, order_id) ==
  {order \in {Order(order_id, NoneStr, s, "LIMIT", p, q, "GTC", {}, Clock(order_id)) :
                s \in Sides, p \in Prices, q \in Quantities} : NonCrossing(order, b)}

\* the readouts before add_order(order) and after the cancel_order that follows
\* it, when both calls return and the order was accepted with NEW
RoundTrips(b, order_id, oid) ==
  {<<before.best_bid, before.best_ask, before.depth, before.index,
     after.best_bid, after.best_ask, after.depth, after.index>> :
     <<before, after>> \in
       {<<x[1], Readout(x[3].book)>> :
          x \in {y \in {<<z[1], z[2], cancel_order(z[2].book, order_id)>> :
                         z \in {<<w, add_order(w.book, order, oid)>> :
                                 w \in {Readout(b)}, order \in RoundTripOrders(b, order_id)}} :
                   /\ y[2].status = "returned" /\ y[3].status = "returned"
                   /\ y[2].events = <<At(New(order_id), Clock(order_id))>>}}}

\* C20: from any reachable book, add_order of a non-crossing GTC LIMIT order
\* under a fresh id followed by cancel_order of that id leaves get_best_bid,
\* get_best_ask, get_depth and the id index with the values read before the
\* submission.
C20_RoundTrip ==
  Quiescent =>
    \A t \in RoundTrips(CurrentBook, nextOid, nextOid) :
      /\ t[5] = t[1] /\ t[6] = t[2] /\ t[7] = t[3] /\ t[8] = t[4]

\* ---- C21 ------------------------------------------------------------------------
\* the call is amend_order(id, new_quantity = q) on an indexed order, with no
\* new price and q strictly below the order's remaining_quantity
AmendsInPlace(op) ==
  /\ op.op = "amend"
  /\ op.order_id \in DOMAIN orders
  /\ op.new_price = None /\ op.new_quantity # None
  /\ op.new_quantity < heap[orders[op.order_id]].remaining_quantity

\* the objects queued behind oid in the queue q
Behind(q, oid) == {q[k] : k \in {j \in DOMAIN q : \E i \in 1..(j - 1) : q[i] = oid}}

\* in the fills of one call, every fill of a maker of the set behind comes
\* after a fill of the maker oid
FilledAfter(fl, oid, behind) ==
  \A j \in DOMAIN fl :
    fl[j].maker_oid \in behind => \E i \in 1..(j - 1) : fl[i].maker_oid = oid

\* the fills of every order of SpecAmend submitted next to the book b
NextFills(b, oid) == {add_order(b, order, oid).fills : order \in AmendOrders(oid)}

\* C21: amend_order(id, new_quantity = q) with no new price and q strictly below
\* the order's remaining_quantity returns the single event AMEND, sets
\* remaining_quantity to q and leaves every queue as it was; whatever order is
\* submitted next, an order queued behind the amended one at its price is
\* filled only after it.
C21_AmendDownKeepsPosition ==
  [][AmendsInPlace(lastOp') =>
       LET id == lastOp'.order_id
           oid == orders[id]
           q == lastOp'.new_quantity
           own == IF heap[oid].side = "BUY" THEN bids ELSE asks
           behind == IF HasLevel(own, heap[oid].price)
                     THEN Behind(Queue(own, heap[oid].price), oid) ELSE {}
       IN /\ outcome' = "returned"
          /\ events' = <<Amend(id, q)>>
          /\ heap' = [heap EXCEPT ![oid].remaining_quantity = q]
          /\ bids' = bids /\ asks' = asks /\ orders' = orders
          /\ \A fl \in NextFills(Book(bids', asks', orders', heap'), nextOid') :
               FilledAfter(fl, oid, behind)]_vars

\* C21 witness: an amendment in place of an order with another order queued
\* behind it has returned, and an order submitted next fills that other order
C21_Witness ==
  /\ outcome = "returned" /\ lastOp.op = "amend"
  /\ Len(events) = 1 /\ events[1].type = "AMEND"
  /\ lastOp.order_id \in DOMAIN orders
  /\ \E i \in DOMAIN bids.levels :
       /\ Behind(bids.levels[i].q, orders[lastOp.order_id]) # {}
       /\ \E fl \in NextFills(CurrentBook, nextOid) :
            \E j \in DOMAIN fl :
              fl[j].maker_oid \in Behind(bids.levels[i].q, orders[lastOp.order_id])

\* ---- C22 ------------------------------------------------------------------------
\* the call is amend_order on a resting order, with a new price or with a
\* quantity that is not below the order's remaining_quantity
AmendsByResubmit(op) ==
  /\ op.op = "amend"
  /\ op.order_id \in DOMAIN orders
  /\ orders[op.order_id] \in QueuedOids(bids) \cup QueuedOids(asks)
  /\ ~(op.new_price = None /\ op.new_quantity # None
       /\ op.new_quantity < heap[orders[op.order_id]].remaining_quantity)

\* the order indexed under id is the last one of some queue of the side pl
LastInQueue(pl, oid) ==
  \E i \in DOMAIN pl.levels :
    /\ pl.levels[i].q # <<>>
    /\ pl.levels[i].q[Len(pl.levels[i].q)] = oid

\* C22: amend_order on a resting order with a new price, or with a quantity not
\* below its remaining_quantity, returns CANCEL for the id followed by the
\* events of a submission under the same id; if that submission rests (its
\* last event is NEW), the index holds the id and its order is the last one of
\* its queue.
C22_AmendResubmits ==
  [][AmendsByResubmit(lastOp') =>
       LET id == lastOp'.order_id
       IN /\ outcome' = "returned"
          /\ Len(events') >= 2
          /\ events'[1] = Cancel(id, NoneStr)
          /\ events'[Len(events')].order_id = id
          /\ events'[Len(events')].type \in {"NEW", "DONE", "CANCEL", "REJECT"}
          /\ events'[Len(events')].type = "NEW" =>
               /\ id \in DOMAIN orders'
               /\ orders'[id] # orders[id]
               /\ LastInQueue(IF heap[orders[id]].side = "BUY" THEN bids' ELSE asks',
                              orders'[id])]_vars

\* ---- C23 ------------------------------------------------------------------------
\* C23: between calls, every order of the id index has 0 <= remaining_quantity
\* <= quantity, and no order with remaining_quantity = 0 is in the id index or
\* in a queue.
C23_RemainingQuantityBounds ==
  Quiescent =>
    /\ \A id \in DOMAIN orders :
         /\ 0 <= heap[orders[id]].remaining_quantity
         /\ heap[orders[id]].remaining_quantity <= heap[orders[id]].quantity
    /\ \A oid \in Range(orders) \cup QueuedOids(bids) \cup QueuedOids(asks) :
         heap[oid].remaining_quantity # 0

\* ---- C24 ------------------------------------------------------------------------
\* the remaining_quantity of the taker object when the call ends: the value the
\* last fill assigned to it, its submitted value without a fill
TakerLeft(order, fl) ==
  IF fl = <<>> THEN order.remaining_quantity ELSE fl[Len(fl)].taker_after

\* C24: the TRADE quantities of the events an add_order call returns sum to at
\* most the submitted quantity, and to the amount by which the call decreased
\* the taker's remaining_quantity; a taker that rests holds that value in the book.
C24_TradeQuantitySum ==
  [][(lastOp'.op = "add" /\ outcome' = "returned") =>
       LET order == lastOp'.order
           total == SumQuantity(Trades(events'))
       IN /\ total <= order.quantity
          /\ total = order.remaining_quantity - TakerLeft(order, fills')
          /\ TakerLeft(order, fills') >= 0
          /\ (order.order_id \in DOMAIN orders' /\ orders'[order.order_id] = nextOid)
               => heap'[nextOid].remaining_quantity = TakerLeft(order, fills')]_vars

\* C24 witness: a returned add_order call made several trades
C24_Witness ==
  /\ lastOp.op = "add" /\ outcome = "returned"
  /\ Len(Trades(events)) >= 2
  /\ SumQuantity(Trades(events)) = lastOp.order.quantity

\* ---- C25 ------------------------------------------------------------------------
\* the events that end an order's life in a call
Terminal(e, order_id) ==
  e.order_id = order_id /\ e.type \in {"DONE", "NEW", "CANCEL", "REJECT"}

\* the position in evs of its n-th TRADE
RECURSIVE TradeAt(_, _, _)
TradeAt(evs, n, from) ==
  IF evs[from].type = "TRADE"
  THEN IF n = 1 THEN from ELSE TradeAt(evs, n - 1, from + 1)
  ELSE TradeAt(evs, n, from + 1)

\* the n-th fill took all that its maker had left
Exhausted(fl, n) == fl[n].maker.remaining_quantity <= fl[n].taker_remaining

\* C25: in the events an add_order call returns, the DONE of a maker comes
\* right after the TRADE that exhausted that maker and carries the taker's
\* timestamp, and every such TRADE is followed by one; the list ends with the
\* one terminal event of the taker, a DONE exactly when the taker was filled
\* completely, else a NEW, CANCEL or REJECT.
C25_DoneAndTerminalEvents ==
  [][(lastOp'.op = "add" /\ outcome' = "returned") =>
       LET order == lastOp'.order
           evs == events'
           last == Len(events')
       IN /\ \A k \in DOMAIN evs :
               (evs[k].type = "DONE" /\ evs[k].order_id # order.order_id)
                 => /\ k > 1
                    /\ evs[k - 1].type = "TRADE"
                    /\ evs[k - 1].matched_order_id = evs[k].order_id
                    /\ evs[k].timestamp = order.timestamp
          /\ Len(Trades(evs)) = Len(fills')
          /\ \A n \in DOMAIN fills' :
               Exhausted(fills', n)
                 <=> /\ TradeAt(evs, n, 1) < last
                     /\ evs[TradeAt(evs, n, 1) + 1].type = "DONE"
                     /\ evs[TradeAt(evs, n, 1) + 1].order_id = fills'[n].maker.order_id
          /\ last >= 1
          /\ Terminal(evs[last], order.order_id)
          /\ \A k \in 1..(last - 1) : ~Terminal(evs[k], order.order_id)
          /\ evs[last].type = "DONE" <=> (fills' # <<>> /\ TakerLeft(order, fills') = 0)]_vars

\* C25 witness: a returned call exhausted two makers and was filled completely
C25_Witness ==
  /\ lastOp.op = "add" /\ outcome = "returned"
  /\ Len(fills) >= 2
  /\ \A n \in DOMAIN fills : Exhausted(fills, n)
  /\ events[Len(events)].type = "DONE"
  /\ Cardinality({k \in DOMAIN events : events[k].type = "DONE"}) >= 3

\* ---- C26 ------------------------------------------------------------------------
\* both threads of the race have left their calls
RaceOver == adder.pc \in {"done", "raised"} /\ canceller.pc \in {"done", "raised"}

\* a book without the objects that nothing in it references
Reachable(b) == [b EXCEPT !.heap = [o \in Live(b) |-> b.heap[o]]]

\* what the two calls leave behind: the book and the two event lists
RaceResult(b, add_events, cancel_events) ==
  [book |-> Reachable(b), add |-> add_events, cancel |-> cancel_events]

\* the results of the two serial orders of cancel_order(order_id) and
\* add_order(order) on the book b, when both calls return
SerialResults(b, order, oid, order_id) ==
  {RaceResult(x[2].book, x[2].events, x[1].events) :
     x \in {y \in {<<c, add_order(c.book, order, oid)>> : c \in {cancel_order(b, order_id)}} :
              y[2].status = "returned"}}
  \cup
  {RaceResult(x[2].book, x[1].events, x[2].events) :
     x \in {y \in {<<a, cancel_order(a.book, order_id)>> : a \in {add_order(b, order, oid)}} :
              y[1].status = "returned"}}

\* the order X of the race rests on the side the taker matches against, at a
\* price the taker accepts
RaceCrosses(t, order_id) ==
  LET x == t.start.heap[t.start.orders[order_id]]
  IN /\ x.side # t.order.side
     /\ t.start.orders[order_id] \in QueuedOids(maker_side_of(t.start, t.order))
     /\ ~price_limit_reached(t.order, t.order.side, x.price)

\* the quantity the adder traded against the order order_id
TradedAgainst(evs, order_id) ==
  SumQuantity(SelectSeq(evs, LAMBDA e : e.type = "TRADE" /\ e.matched_order_id = order_id))

\* C26: when a thread in cancel_order(X) runs with a thread in an add_order that
\* can match against X, neither call raises; the book and the two event lists
\* they leave are those of one of the two serial orders of the calls; an order
\* other than X leaves its queue only with a TRADE against it; and CANCEL is
\* returned for X only if the trades against X left some of its quantity.
C26_CancelSerialisedWithAdd ==
  (outcome = "racing" /\ canceller.pc # "idle" /\ RaceOver
     /\ RaceCrosses(adder, canceller.order_id)) =>
    /\ adder.pc = "done" /\ canceller.pc = "done"
    /\ RaceResult(CurrentBook, adder.events, canceller.events)
         \in SerialResults(adder.start, adder.order, adder.oid, canceller.order_id)
    /\ \A id \in DOMAIN adder.start.orders \ {canceller.order_id} :
         adder.start.orders[id] \in QueuedOids(maker_side_of(adder.start, adder.order))
           => \/ adder.start.orders[id] \in QueuedOids(maker_side_of(CurrentBook, adder.order))
              \/ TradedAgainst(adder.events, id) > 0
    /\ canceller.events = <<Cancel(canceller.order_id, NoneStr)>>
         => TradedAgainst(adder.events, canceller.order_id)
              < adder.start.heap[adder.start.orders[canceller.order_id]].remaining_quantity

\* ---- SpecReaders: one thread in add_order, one in get_depth ---------------------
\* get_depth takes no lock of the book: it calls bids.get_levels and then
\* asks.get_levels, each under the lock of its own side, which the matching
\* loop of add_order does not take for its changes to queues and makers.

\* get_depth: "bids": self.bids.get_levels(levels)
ReadBids ==
  /\ reader.pc = "bids"
  /\ reader' = [reader EXCEPT !.pc = "asks", !.bids = get_levels(bids, heap, 10)]
  /\ UNCHANGED <<bids, asks, orders, heap, nextOid, stats, events, fills, lastOp, outcome,
                 adder, canceller, twap>>

\* get_depth: "asks": self.asks.get_levels(levels), and the return
ReadAsks ==
  /\ reader.pc = "asks"
  /\ reader' = [reader EXCEPT !.pc = "done",
                              !.value = [bids |-> reader.bids,
                                         asks |-> get_levels(asks, heap, 10)]]
  /\ UNCHANGED <<bids, asks, orders, heap, nextOid, stats, events, fills, lastOp, outcome,
                 adder, canceller, twap>>

\* a thread calls add_order(order) while another calls get_depth()
StartReadRace ==
  /\ outcome = "idle"
  /\ nextOid <= MaxRaceOrders
  /\ \E order \in RaceTakers(nextOid) : adder' = AdderStart(order, nextOid)
  /\ reader' = [pc |-> "bids", bids |-> <<>>, value |-> [bids |-> <<>>, asks |-> <<>>]]
  /\ outcome' = "racing"
  /\ nextOid' = nextOid + 1
  /\ UNCHANGED <<bids, asks, orders, heap, stats, events, fills, lastOp, canceller, twap>>

NextReaders ==
  \/ AddRaceOrder \/ Continue \/ StartReadRace
  \/ AddLimit \/ AddOuter \/ AddInner \/ AddPopleft \/ AddRemove \/ AddDel \/ AddResidual
  \/ ReadBids \/ ReadAsks

SpecReaders == Init /\ [][NextReaders]_vars

\* ---- C27 ------------------------------------------------------------------------
\* what get_depth returns on the book before the add_order call of the adder,
\* and on the book that call leaves when it returns
DepthSnapshots(t) ==
  {get_depth(t.start)}
  \cup {get_depth(a.book) : a \in {x \in {add_order(t.start, t.order, t.oid)} :
                                     x.status = "returned"}}

\* C27: a get_depth that runs while an add_order call is in progress returns
\* the depth of the book as it was before that call or as the call leaves it,
\* never a depth computed from a state in between.
C27_ReadersSeeSnapshots ==
  (outcome = "racing" /\ reader.pc = "done"
     /\ add_order(adder.start, adder.order, adder.oid).status = "returned")
    => reader.value \in DepthSnapshots(adder)

\* ---- SpecCache: orders, cancels and the readers get_best_bid, get_best_ask -----
\* book.get_best_bid(): the call may fill the cache of the bid side
GetBestBid ==
  /\ outcome = "idle"
  /\ \E r \in {get_best_bid(CurrentBook)} :
       /\ bids' = r.pl
       /\ lastOp' = [op |-> "get_best_bid", value |-> r.value]
  /\ outcome' = "returned"
  /\ events' = <<>> /\ fills' = <<>>
  /\ UNCHANGED <<asks, orders, heap, nextOid, stats, threads, twap>>

\* book.get_best_ask(): the call may fill the cache of the ask side
GetBestAsk ==
  /\ outcome = "idle"
  /\ \E r \in {get_best_ask(CurrentBook)} :
       /\ asks' = r.pl
       /\ lastOp' = [op |-> "get_best_ask", value |-> r.value]
  /\ outcome' = "returned"
  /\ events' = <<>> /\ fills' = <<>>
  /\ UNCHANGED <<bids, orders, heap, nextOid, stats, threads, twap>>

AddCacheOrder == nextOid <= MaxCacheOrders /\ \E order \in RaceTakers(nextOid) : Submit(order)
CancelCacheOrder == Cancelling(MaxCacheOrders)

NextCache == AddCacheOrder \/ CancelCacheOrder \/ GetBestBid \/ GetBestAsk \/ Continue

SpecCache == Init /\ [][NextCache]_vars

\* ---- C28 ------------------------------------------------------------------------
\* the cache of the side pl is empty, or holds the side's best price and the
\* sum of remaining_quantity over the queue at that price
CacheFresh(pl, h) ==
  pl.cached_best_size # None =>
    /\ pl.prices # <<>>
    /\ pl.cached_best_price = pl.prices[1]
    /\ HasLevel(pl, pl.prices[1])
    /\ pl.cached_best_size = SumRemaining(Queue(pl, pl.prices[1]), h)

\* C28: between calls, a populated best-level cache of a side holds that side's
\* best price and the sum of remaining_quantity over the queue of that level,
\* so get_best_bid and get_best_ask return the current size of the best level.
C28_CacheIsFresh ==
  Quiescent => CacheFresh(bids, heap) /\ CacheFresh(asks, heap)

\* ---- C29 ------------------------------------------------------------------------
\* the sequence s of prices is strictly descending
StrictlyDescending(s) == \A i \in 1..Len(s) - 1 : s[i] > s[i + 1]
\* the sequence s of prices is strictly ascending
StrictlyAscending(s) == \A i \in 1..Len(s) - 1 : s[i] < s[i + 1]
\* the prices of the (price, size) pairs of one side of a depth read-out
DepthPrices(d) == [i \in 1..Len(d) |-> d[i][1]]

\* C29: between calls the price sequence of the bids is strictly descending and
\* that of the asks strictly ascending, and get_depth lists the bids
\* highest-first and the asks lowest-first.
C29_PricesSortedBestFirst ==
  Quiescent =>
    /\ StrictlyDescending(bids.prices)
    /\ StrictlyAscending(asks.prices)
    /\ StrictlyDescending(DepthPrices(get_depth(CurrentBook).bids))
    /\ StrictlyAscending(DepthPrices(get_depth(CurrentBook).asks))

\* ---- TWAPStrategy (strategies.py) -----------------------------------------------
\* timestamps are whole numbers and slice_duration divides exactly; quantities
\* are whole numbers that every slice count of the bounds divides; a limit
\* price is held in units of 1/BpsScale of the mid price's unit
BpsScale == 10000

\* TWAPStrategy.__init__ (with BaseStrategy.__init__)
TWAPStrategy(side, total_quantity, start_ts, end_ts, num_slices, spread_bps) ==
  [name |-> "TWAP", side |-> side, total_quantity |-> total_quantity,
   start_ts |-> start_ts, end_ts |-> end_ts,
   executed_quantity |-> 0, num_trades |-> 0, open_orders |-> <<>>,
   num_slices |-> num_slices, spread_bps |-> spread_bps,
   slice_duration |-> (end_ts - start_ts) \div num_slices,
   current_slice |-> 0, last_slice_ts |-> start_ts]

\* BaseStrategy.is_done
is_done(s) == s.executed_quantity >= s.total_quantity

\* the child order of one slice
slice_order(s, ts, mid_price, slice_qty) ==
  Order(<<s.name, ts, s.current_slice>>, "strategy-TWAP", s.side, "LIMIT",
        IF s.side = "BUY" THEN mid_price * (BpsScale - s.spread_bps)
                          ELSE mid_price * (BpsScale + s.spread_bps),
        slice_qty, "IOC", {}, ts)

\* the quantity of the slice: the remaining quantity over the remaining slices
slice_qty_of(s) ==
  IF s.num_slices - s.current_slice > 0
    THEN (s.total_quantity - s.executed_quantity) \div (s.num_slices - s.current_slice)
    ELSE s.total_quantity - s.executed_quantity

\* the slice at ts is one to emit for
\* (target_slice > current_slice or ts >= last_slice_ts + slice_duration)
new_slice(s, ts, target_slice) ==
  target_slice > s.current_slice \/ ts >= s.last_slice_ts + s.slice_duration

\* TWAPStrategy.on_market_data(ts, mid_price, book): the list it returns and
\* the strategy as the call leaves it (book is not read)
on_market_data(s, ts, mid_price) ==
  IF ts < s.start_ts \/ ts > s.end_ts THEN [orders |-> <<>>, s |-> s]
  ELSE IF is_done(s) THEN [orders |-> <<>>, s |-> s]
  ELSE LET target_slice == Min((ts - s.start_ts) \div s.slice_duration, s.num_slices - 1)
       IN IF ~new_slice(s, ts, target_slice) THEN [orders |-> <<>>, s |-> s]
          ELSE LET s1 == [s EXCEPT !.current_slice = target_slice]
                   slice_qty == slice_qty_of(s1)
               IN IF mid_price # None /\ slice_qty > 0
                    THEN LET order == slice_order(s1, ts, mid_price, slice_qty)
                         IN [orders |-> <<order>>,
                             s |-> [s1 EXCEPT !.open_orders = (order.order_id :> order) @@ @,
                                              !.last_slice_ts = ts]]
                    ELSE [orders |-> <<>>, s |-> s1]

\* BaseStrategy.on_fill([event]) for one event
on_fill(s, event) ==
  IF event.type = "TRADE" /\ event.order_id \in DOMAIN s.open_orders
       /\ event.price # None /\ event.quantity # None
    THEN LET order == s.open_orders[event.order_id]
             left == order.remaining_quantity - event.quantity
         IN [s EXCEPT !.executed_quantity = @ + event.quantity,
                      !.num_trades = @ + 1,
                      !.open_orders =
                        IF left <= 0
                          THEN [id \in DOMAIN @ \ {event.order_id} |-> @[id]]
                          ELSE [@ EXCEPT ![event.order_id].remaining_quantity = left]]
    ELSE s

\* ---- SpecTwap: one TWAPStrategy, its market data and its fills ------------------
TwapStrategies ==
  {TWAPStrategy(side, 6, start_ts, start_ts + num_slices * slice_duration, num_slices, 5) :
     side \in {"BUY", "SELL"}, start_ts \in 0..MaxStartTs,
     num_slices \in 1..MaxSlices, slice_duration \in 1..MaxSliceDuration}

InitTwap ==
  /\ bids = EmptyLevels
  /\ asks = EmptyLevels
  /\ orders = <<>>
  /\ heap = <<>>
  /\ nextOid = 1
  /\ stats = [total_orders |-> 0, total_trades |-> 0, total_volume |-> 0]
  /\ events = <<>>
  /\ fills = <<>>
  /\ lastOp = [op |-> "none"]
  /\ outcome = "idle"
  /\ adder = [pc |-> "idle"]
  /\ canceller = [pc |-> "idle"]
  /\ reader = [pc |-> "idle"]
  /\ strategy \in TwapStrategies
  /\ calls = <<>>
  /\ engine = [pc |-> "idle"]

\* strategy.on_market_data(ts, mid_price, book)
OnMarketData ==
  /\ Len(calls) < MaxCalls
  /\ \E ts \in strategy.start_ts - 1 .. strategy.end_ts + 1, mid_price \in {None, 100} :
       \E r \in {on_market_data(strategy, ts, mid_price)} :
         /\ strategy' = r.s
         /\ calls' = Append(calls, [ts |-> ts, mid_price |-> mid_price, orders |-> r.orders])
  /\ UNCHANGED <<bids, asks, orders, heap, nextOid, stats, events, fills, lastOp, outcome,
                 threads, engine>>

\* strategy.on_fill([event]): an open child order trades in full
OnFill ==
  /\ \E id \in DOMAIN strategy.open_orders :
       LET order == strategy.open_orders[id]
       IN strategy' = on_fill(strategy, Trade(id, 0, order.price, order.remaining_quantity))
  /\ UNCHANGED <<bids, asks, orders, heap, nextOid, stats, events, fills, lastOp, outcome,
                 threads, calls, engine>>

NextTwap == OnMarketData \/ OnFill

SpecTwap == InitTwap /\ [][NextTwap]_vars

\* ---- C30 ------------------------------------------------------------------------
\* the calls so far were one at the start of each slice, in order, each with a
\* mid price: call k (from 0) came at start_ts + k * slice_duration
CalledAtSliceStarts(s, cs) ==
  /\ Len(cs) <= s.num_slices
  /\ \A k \in 1..Len(cs) :
       /\ cs[k].ts = s.start_ts + (k - 1) * s.slice_duration
       /\ cs[k].mid_price # None

\* C30: when on_market_data is called once at the start of every slice with a
\* mid price, each of these calls, the first at start_ts included, returns
\* exactly one order, and that order is a LIMIT IOC order.
C30_OneChildOrderPerSlice ==
  CalledAtSliceStarts(strategy, calls) =>
    \A k \in 1..Len(calls) :
      /\ Len(calls[k].orders) = 1
      /\ calls[k].orders[1].type = "LIMIT"
      /\ calls[k].orders[1].time_in_force = "IOC"

\* ---- C33 ------------------------------------------------------------------------
\* the price list of the side pl holds exactly the keys of its price-to-queue
\* mapping, each once, and no queue is empty
LevelsWellFormed(pl) ==
  /\ Range(pl.prices) = {pl.levels[i].price : i \in DOMAIN pl.levels}
  /\ Len(pl.prices) = Len(pl.levels)
  /\ \A i \in DOMAIN pl.levels : pl.levels[i].q # <<>>

\* a side with no resting order reports no best price and no depth levels
EmptySideReportsNothing(pl, h) ==
  QueuedOids(pl) = {} => best_of(pl, h).value = <<>> /\ get_levels(pl, h, 10) = <<>>

\* C33: between calls each side's price list holds exactly the keys of its
\* mapping and every queue is non-empty, so a side on which nothing rests
\* reports no best price and no depth levels.
C33_NoEmptyLevels ==
  Quiescent =>
    /\ LevelsWellFormed(bids) /\ LevelsWellFormed(asks)
    /\ EmptySideReportsNothing(bids, heap) /\ EmptySideReportsNothing(asks, heap)

\* ---- C34 ------------------------------------------------------------------------
\* the head of the queue q has the earliest timestamp of the orders in q
HeadIsEarliest(q, h) == \A i \in DOMAIN q : h[q[1]].timestamp <= h[q[i]].timestamp

\* C34: orders being submitted with increasing timestamps, between calls the
\* head of every price level's queue has the earliest timestamp among the
\* orders resting at that price.
C34_HeadIsEarliest ==
  Quiescent =>
    /\ \A i \in DOMAIN bids.levels : HeadIsEarliest(bids.levels[i].q, heap)
    /\ \A i \in DOMAIN asks.levels : HeadIsEarliest(asks.levels[i].q, heap)

\* ---- C35 ------------------------------------------------------------------------
\* the last call was add_order of a SELL LIMIT order that returned, and fill i
\* of it was made with a resting BUY priced above the order's limit
SellHitHigherBuy(i) ==
  /\ outcome = "returned"
  /\ AddedLimit(lastOp)
  /\ lastOp.order.side = "SELL"
  /\ i \in DOMAIN fills
  /\ fills[i].maker.side = "BUY"
  /\ fills[i].maker.price > lastOp.order.price

C36_IndexedOrderIsCancellable ==
  [][(lastOp'.op = "cancel" /\ lastOp'.order_id \in DOMAIN orders)
       => /\ outcome' = "returned"
          /\ events' = <<Cancel(lastOp'.order_id, NoneStr)>>
          /\ lastOp'.order_id \notin DOMAIN orders'
          /\ orders[lastOp'.order_id] \notin QueuedOids(bids') \cup QueuedOids(asks')]_vars

\* ---- C37 ------------------------------------------------------------------------
\* the call is amend_order(order_id, new_price = p) with no new quantity, for an
\* id of the index
AmendsPriceOnly(op) ==
  /\ op.op = "amend"
  /\ op.order_id \in DOMAIN orders
  /\ op.new_price # None
  /\ op.new_quantity = None

\* C37: amend_order(id, new_price = p) without a new quantity does not undo
\* fills: what the resubmitted order trades in the call plus what it keeps
\* resting afterwards equals the order's remaining_quantity before the amend.
C37_AmendKeepsFills ==
  [][(AmendsPriceOnly(lastOp') /\ outcome' = "returned")
       => LET before == heap[orders[lastOp'.order_id]].remaining_quantity
              resting == IF lastOp'.order_id \in DOMAIN orders'
                         THEN heap'[orders'[lastOp'.order_id]].remaining_quantity
                         ELSE 0
          IN SumQuantity(Trades(events')) + resting = before]_vars

\* ---- C38 ------------------------------------------------------------------------
\* C38: when amend_order is called for an id of the index and its resubmission
\* is rejected, the call changes nothing: the original order rests as before,
\* in its queue and in the index.
C38_RejectedAmendKeepsOrder ==
  [][(/\ lastOp'.op = "amend"
      /\ lastOp'.order_id \in DOMAIN orders
      /\ outcome' = "returned"
      /\ \E i \in DOMAIN events' : events'[i].type = "REJECT")
       => UNCHANGED <<bids, asks, orders, heap>>]_vars

\* ---- ReplayEngine (replay.py) ---------------------------------------------------
\* replay.py imports Event from lob_py.events and not EventType, the name its
\* statistics loop reads
EventTypeImported == FALSE

\* one record of the stream: ts, msg_type, side, price, qty, order_id
NewRow(ts, side, price, qty, order_id) ==
  [ts |-> ts, msg_type |-> "NEW", side |-> side, price |-> price, qty |-> qty,
   order_id |-> order_id]
CancelRow(ts, order_id) ==
  [ts |-> ts, msg_type |-> "CANCEL", side |-> "", price |-> None, qty |-> None,
   order_id |-> order_id]

RECURSIVE sort_by_ts(_)
\* rows.sort(key=lambda r: parse_timestamp(r.get("ts", "0"))): a stable sort
sort_by_ts(rows) ==
  IF rows = <<>> THEN <<>>
  ELSE LET sorted == sort_by_ts(SubSeq(rows, 1, Len(rows) - 1))
           row == rows[Len(rows)]
           \* the rows that stay in front of row: those with ts <= row.ts
           k == Cardinality({i \in DOMAIN sorted : sorted[i].ts <= row.ts})
       IN SubSeq(sorted, 1, k) \o <<row>> \o SubSeq(sorted, k + 1, Len(sorted))

\* the Order that run_from_csv constructs for a NEW record
row_order(row) ==
  Order(row.order_id, NoneStr, row.side, "LIMIT", row.price, row.qty, "GTC", {}, row.ts)

RECURSIVE track_statistics(_, _)
\* the statistics loop over new_events; it raises NameError at its first event
track_statistics(e, new_events) ==
  IF new_events = <<>> THEN e
  ELSE IF ~EventTypeImported THEN [e EXCEPT !.pc = "raised"]
  ELSE LET event == new_events[1]
           counted ==
             IF event.type = "TRADE"
             THEN [e EXCEPT !.num_trades = @ + 1,
                            !.total_volume =
                              IF event.quantity \notin {None, 0} THEN @ + event.quantity ELSE @,
                            !.prices =
                              IF event.price \notin {None, 0} THEN Append(@, event.price) ELSE @]
             ELSE e
       IN track_statistics(counted, Tail(new_events))

\* ReplayEngine.run_from_csv up to its loop: the locals and the sorted rows
run_from_csv(rows) ==
  [pc |-> "row", rows |-> sort_by_ts(rows), i |-> 1, events |-> <<>>,
   num_events |-> 0, num_trades |-> 0, total_volume |-> 0, prices |-> <<>>,
   result |-> <<>>]

RECURSIVE SumPrices(_)
SumPrices(prices) == IF prices = <<>> THEN 0 ELSE prices[1] + SumPrices(Tail(prices))

\* the dictionary run_from_csv returns; avg_price is held as (sum, count)
replay_result(e) ==
  [num_events |-> e.num_events, num_trades |-> e.num_trades,
   total_volume |-> e.total_volume,
   min_price |-> IF e.prices # <<>>
                 THEN CHOOSE p \in Range(e.prices) : \A x \in Range(e.prices) : p <= x
                 ELSE None,
   max_price |-> IF e.prices # <<>>
                 THEN CHOOSE p \in Range(e.prices) : \A x \in Range(e.prices) : p >= x
                 ELSE None,
   avg_price |-> IF e.prices # <<>> THEN <<SumPrices(e.prices), Len(e.prices)>> ELSE <<>>]

\* ---- SpecReplay: one run of run_from_csv over a well-formed stream --------------
\* the record at place order_id of the file: a NEW record under that id, or a
\* CANCEL record for any id
Rows(order_id) ==
  {NewRow(ts, side, price, qty, order_id) :
     ts \in 1..MaxRowTs, side \in Sides, price \in 1..MaxRowPrice, qty \in Quantities}
  \cup {CancelRow(ts, id) : ts \in 1..MaxRowTs, id \in 1..MaxRows}

Streams == {<<r1, r2, r3>> : r1 \in Rows(1), r2 \in Rows(2), r3 \in Rows(MaxRows)}

InitReplay ==
  /\ bids = EmptyLevels
  /\ asks = EmptyLevels
  /\ orders = <<>>
  /\ heap = <<>>
  /\ nextOid = 1
  /\ stats = [total_orders |-> 0, total_trades |-> 0, total_volume |-> 0]
  /\ events = <<>>
  /\ fills = <<>>
  /\ lastOp = [op |-> "none"]
  /\ outcome = "idle"
  /\ adder = [pc |-> "idle"]
  /\ canceller = [pc |-> "idle"]
  /\ reader = [pc |-> "idle"]
  /\ strategy = None
  /\ calls = <<>>
  /\ engine \in {run_from_csv(rows) : rows \in Streams}

\* one turn of the loop for a NEW record
ReplayNew ==
  /\ engine.pc = "row"
  /\ engine.i <= Len(engine.rows)
  /\ engine.rows[engine.i].msg_type = "NEW"
  /\ \E order \in {row_order(engine.rows[engine.i])} :
       /\ \E r \in {add_order(CurrentBook, order, nextOid)} :
            /\ Apply(r)
            /\ stats' = update_stats(stats, order, r.events, r.status)
            /\ engine' =
                 IF r.status # "returned" THEN [engine EXCEPT !.pc = r.status]
                 ELSE LET e == track_statistics([engine EXCEPT !.events = @ \o r.events],
                                                r.events)
                      IN IF e.pc = "raised" THEN e
                         ELSE [e EXCEPT !.num_events = @ + 1, !.i = @ + 1]
       /\ lastOp' = [op |-> "add", order |-> order]
  /\ nextOid' = nextOid + 1
  /\ UNCHANGED <<threads, strategy, calls>>

\* one turn of the loop for a CANCEL record
ReplayCancel ==
  /\ engine.pc = "row"
  /\ engine.i <= Len(engine.rows)
  /\ engine.rows[engine.i].msg_type = "CANCEL"
  /\ \E r \in {cancel_order(CurrentBook, engine.rows[engine.i].order_id)} :
       /\ Apply(r)
       /\ engine' = [engine EXCEPT !.events = @ \o r.events,
                                   !.num_events = @ + 1, !.i = @ + 1]
  /\ lastOp' = [op |-> "cancel", order_id |-> engine.rows[engine.i].order_id]
  /\ UNCHANGED <<nextOid, stats, threads, strategy, calls>>

\* the end of the loop: the statistics and the return
ReplayReturn ==
  /\ engine.pc = "row"
  /\ engine.i > Len(engine.rows)
  /\ engine' = [engine EXCEPT !.pc = "done", !.result = replay_result(engine)]
  /\ UNCHANGED <<bids, asks, orders, heap, nextOid, stats, events, fills, lastOp, outcome,
                 threads, strategy, calls>>

NextReplay == ReplayNew \/ ReplayCancel \/ ReplayReturn

SpecReplay == InitReplay /\ [][NextReplay]_vars

\* ---- C32 ------------------------------------------------------------------------
\* C32: run_from_csv neither raises nor stays in a call of the book, it takes
\* the records in ascending ts, and what it returns has num_trades equal to the
\* number of TRADE events of the replayed calls and total_volume equal to the
\* sum of their quantities.
C32_ReplayRunsAndCounts ==
  /\ engine.pc \notin {"raised", "hung"}
  /\ \A i \in 1..Len(engine.rows) - 1 : engine.rows[i].ts <= engine.rows[i + 1].ts
  /\ engine.pc = "done" =>
       /\ engine.result.num_trades = Len(Trades(engine.events))
       /\ engine.result.total_volume = SumQuantity(Trades(engine.events))

\* ---- MarketMakerStrategy (strategies.py) ----------------------------------------
\* Prices are whole numbers of a unit fine enough for every quote of the bounds
\* to be exact; inventory_skew_factor is a whole number; an order_id built from
\* a name and a timestamp is the pair (name, ts).
Abs(x) == IF x < 0 THEN 0 - x ELSE x

\* Order(..., user_data=user_data)
with_user_data(order, user_data) == [user_data |-> user_data] @@ order

\* MarketMakerStrategy.__init__ (with BaseStrategy.__init__)
MarketMakerStrategy(start_ts, end_ts, base_spread_bps, order_size, max_inventory, inventory_skew_factor) ==
  [name |-> "MarketMaker", side |-> "BUY", total_quantity |-> 0,
   start_ts |-> start_ts, end_ts |-> end_ts,
   executed_quantity |-> 0, num_trades |-> 0, open_orders |-> <<>>,
   base_spread_bps |-> base_spread_bps, order_size |-> order_size,
   max_inventory |-> max_inventory, inventory_skew_factor |-> inventory_skew_factor,
   inventory |-> 0, last_bid_order_id |-> None, last_ask_order_id |-> None,
   last_mid_price |-> None]

\* price_changed: no last mid price, or a move of more than 0.001 of it
price_changed(s, mid_price) ==
  \/ s.last_mid_price = None
  \/ Abs(mid_price - s.last_mid_price) * 1000 > s.last_mid_price

\* inventory_ratio, clamped to [-1, 1], as numerator and denominator
inventory_ratio(s) ==
  IF s.max_inventory > 0
  THEN [num |-> IF s.inventory > s.max_inventory THEN s.max_inventory
                ELSE IF s.inventory < 0 - s.max_inventory THEN 0 - s.max_inventory
                ELSE s.inventory,
        den |-> s.max_inventory]
  ELSE [num |-> 0, den |-> 1]

\* bid_price = mid_price * (1 - bid_spread_adj), with
\* bid_spread_adj = spread_factor * (1 + inventory_ratio * inventory_skew_factor)
\* on the branch self.side == Side.BUY, the side __init__ sets
bid_price(s, mid_price) ==
  LET r == inventory_ratio(s)
  IN (mid_price * (BpsScale * r.den
                   - s.base_spread_bps * (r.den + r.num * s.inventory_skew_factor)))
     \div (BpsScale * r.den)

\* ask_price = mid_price * (1 + ask_spread_adj), with
\* ask_spread_adj = spread_factor * (1 - inventory_ratio * inventory_skew_factor)
ask_price(s, mid_price) ==
  LET r == inventory_ratio(s)
  IN (mid_price * (BpsScale * r.den
                   + s.base_spread_bps * (r.den - r.num * s.inventory_skew_factor)))
     \div (BpsScale * r.den)

\* the order_id of the cancel carrier of a quote, f"cancel-{order_id}"
cancel_id(order_id) ==
  <<IF order_id[1] = "MarketMaker-bid" THEN "cancel-MarketMaker-bid"
                                       ELSE "cancel-MarketMaker-ask",
    order_id[2]>>

\* the carrier of a cancel: a LIMIT GTC order of price 0 and quantity 0
cancel_carrier(order_id, side, ts) ==
  with_user_data(Order(cancel_id(order_id), "strategy-MarketMaker", side, "LIMIT",
                       0, 0, "GTC", {}, ts),
                 [action |-> "cancel"])

\* the carriers on_market_data emits for its last quotes when the price changed
cancel_carriers(s, ts, mid_price) ==
  IF price_changed(s, mid_price)
  THEN (IF s.last_bid_order_id # None /\ s.last_bid_order_id \in DOMAIN s.open_orders
        THEN <<cancel_carrier(s.last_bid_order_id, "BUY", ts)>> ELSE <<>>)
       \o
       (IF s.last_ask_order_id # None /\ s.last_ask_order_id \in DOMAIN s.open_orders
        THEN <<cancel_carrier(s.last_ask_order_id, "SELL", ts)>> ELSE <<>>)
  ELSE <<>>

\* a bid is quoted at the limit of the inventory all the same
bid_allowed_at_limit(s) == Abs(s.inventory) <= s.max_inventory \/ s.inventory < 0

\* abs(self.inventory) < self.max_inventory or self.inventory < 0
bid_allowed(s) == Abs(s.inventory) < s.max_inventory \/ s.inventory < 0

\* abs(self.inventory) < self.max_inventory or self.inventory > 0
ask_allowed(s) == Abs(s.inventory) < s.max_inventory \/ s.inventory > 0

bid_order(s, ts, mid_price) ==
  with_user_data(Order(<<"MarketMaker-bid", ts>>, "strategy-MarketMaker", "BUY", "LIMIT",
                       bid_price(s, mid_price), s.order_size, "GTC", {"POST_ONLY"}, ts),
                 [strategy |-> s.name, quote_type |-> "bid"])

ask_order(s, ts, mid_price) ==
  with_user_data(Order(<<"MarketMaker-ask", ts>>, "strategy-MarketMaker", "SELL", "LIMIT",
                       ask_price(s, mid_price), s.order_size, "GTC", {"POST_ONLY"}, ts),
                 [strategy |-> s.name, quote_type |-> "ask"])

\* MarketMakerStrategy.on_market_data(ts, mid_price, book): the list it returns
\* and the strategy as the call leaves it (book is not read)
maker_on_market_data(s, ts, mid_price) ==
  IF ts < s.start_ts \/ ts > s.end_ts THEN [orders |-> <<>>, s |-> s]
  ELSE IF mid_price = None THEN [orders |-> <<>>, s |-> s]
  ELSE LET bid == bid_order(s, ts, mid_price)
           ask == ask_order(s, ts, mid_price)
           s1 == IF bid_allowed(s)
                 THEN [s EXCEPT !.open_orders = (bid.order_id :> bid) @@ @,
                                !.last_bid_order_id = bid.order_id]
                 ELSE s
           s2 == IF ask_allowed(s)
                 THEN [s1 EXCEPT !.open_orders = (ask.order_id :> ask) @@ @,
                                 !.last_ask_order_id = ask.order_id]
                 ELSE s1
       IN [orders |-> cancel_carriers(s, ts, mid_price)
                        \o (IF bid_allowed(s) THEN <<bid>> ELSE <<>>)
                        \o (IF ask_allowed(s) THEN <<ask>> ELSE <<>>),
           s |-> [s2 EXCEPT !.last_mid_price = mid_price]]

\* MarketMakerStrategy.on_fill([event]) for one event
maker_on_fill(s, event) ==
  IF event.type = "TRADE" /\ event.order_id \in DOMAIN s.open_orders
       /\ event.price # None /\ event.quantity # None
    THEN LET order == s.open_orders[event.order_id]
             left == order.remaining_quantity - event.quantity
         IN [s EXCEPT !.inventory = IF order.side = "BUY" THEN @ + event.quantity
                                                           ELSE @ - event.quantity,
                      !.executed_quantity = @ + event.quantity,
                      !.num_trades = @ + 1,
                      !.open_orders =
                        IF left <= 0
                          THEN [id \in DOMAIN @ \ {event.order_id} |-> @[id]]
                          ELSE [@ EXCEPT ![event.order_id].remaining_quantity = left]]
    ELSE s

\* ---- SpecMaker: one MarketMakerStrategy, its market data and its fills ----------
MakerStrategies ==
  {MarketMakerStrategy(0, MaxMakerTs, 5000, order_size, max_inventory, skew) :
     order_size \in 1..2, max_inventory \in 0..MaxInventory, skew \in 0..1}

InitMaker ==
  /\ bids = EmptyLevels
  /\ asks = EmptyLevels
  /\ orders = <<>>
  /\ heap = <<>>
  /\ nextOid = 1
  /\ stats = [total_orders |-> 0, total_trades |-> 0, total_volume |-> 0]
  /\ events = <<>>
  /\ fills = <<>>
  /\ lastOp = [op |-> "none"]
  /\ outcome = "idle"
  /\ adder = [pc |-> "idle"]
  /\ canceller = [pc |-> "idle"]
  /\ reader = [pc |-> "idle"]
  /\ strategy \in MakerStrategies
  /\ calls = <<>>
  /\ engine = [pc |-> "idle"]

\* strategy.on_market_data(ts, mid_price, book); the call is recorded with the
\* inventory it found
MakerOnMarketData ==
  /\ Len(calls) < MaxCalls
  /\ \E ts \in 0..MaxMakerTs + 1, mid_price \in {None, 7680} :
       \E r \in {maker_on_market_data(strategy, ts, mid_price)} :
         /\ strategy' = r.s
         /\ calls' = Append(calls, [ts |-> ts, mid_price |-> mid_price,
                                    inventory |-> strategy.inventory, orders |-> r.orders])
  /\ UNCHANGED <<bids, asks, orders, heap, nextOid, stats, events, fills, lastOp, outcome,
                 threads, engine>>

\* strategy.on_fill([event]): an open quote trades, in part or in full
MakerOnFill ==
  /\ \E id \in DOMAIN strategy.open_orders :
       \E quantity \in 1..strategy.open_orders[id].remaining_quantity :
         strategy' = maker_on_fill(strategy,
                                   Trade(id, <<"csv", 0>>, strategy.open_orders[id].price,
                                         quantity))
  /\ UNCHANGED <<bids, asks, orders, heap, nextOid, stats, events, fills, lastOp, outcome,
                 threads, calls, engine>>

NextMaker == MakerOnMarketData \/ MakerOnFill

SpecMaker == InitMaker /\ [][NextMaker]_vars

\* ---- C31 ------------------------------------------------------------------------
\* the orders of a returned list that are quotes: all but the cancel carriers
Quotes(os) == SelectSeq(os, LAMBDA o : "action" \notin DOMAIN o.user_data)

\* C31: no call of on_market_data returns a BUY quote when it finds
\* inventory >= max_inventory, none returns a SELL quote when it finds
\* inventory <= -max_inventory, and every quote is a POST_ONLY GTC LIMIT order.
C31_QuotesRespectInventory ==
  \A k \in DOMAIN calls :
    \A i \in DOMAIN Quotes(calls[k].orders) :
      LET quote == Quotes(calls[k].orders)[i]
      IN /\ quote.type = "LIMIT"
         /\ quote.time_in_force = "GTC"
         /\ "POST_ONLY" \in quote.flags
         /\ calls[k].inventory >= strategy.max_inventory => quote.side # "BUY"
         /\ calls[k].inventory <= 0 - strategy.max_inventory => quote.side # "SELL"

\* C31 witness: fills took a positive inventory limit to its bound or beyond,
\* and the next call quoted the ask alone
C31_Witness ==
  /\ strategy.max_inventory > 0
  /\ \E k \in DOMAIN calls :
       /\ calls[k].inventory >= strategy.max_inventory
       /\ Len(Quotes(calls[k].orders)) = 1
       /\ Quotes(calls[k].orders)[1].side = "SELL"

\* ---- BacktestEngine (backtest.py) -----------------------------------------------
\* The strategy's open_orders holds the Order objects the engine hands to the
\* book: refs names, for each id of open_orders, the object it holds, and the
\* heap of the book holds the objects.

\* MarketMakerStrategy.is_done
maker_is_done(s) == FALSE

\* strategy_order.user_data.get("action") == "cancel"
is_cancel(strategy_order) ==
  /\ "action" \in DOMAIN strategy_order.user_data
  /\ strategy_order.user_data.action = "cancel"

\* strategy_order.order_id.replace("cancel-", "")
orig_id(order_id) ==
  <<IF order_id[1] = "cancel-MarketMaker-bid" THEN "MarketMaker-bid" ELSE "MarketMaker-ask",
    order_id[2]>>

\* LimitOrderBook.get_mid_price: value is the returned price or None, book the
\* book with the caches as the two reads leave them
get_mid_price(b) ==
  CHOOSE x \in
    {[value |-> IF best_bid.value = <<>> \/ best_ask.value = <<>> THEN None
                ELSE (best_bid.value[1] + best_ask.value[1]) \div 2,
      book |-> [b EXCEPT !.bids = best_bid.pl, !.asks = best_ask.pl]] :
       <<best_bid, best_ask>> \in {<<get_best_bid(b), get_best_ask(b)>>}} : TRUE

\* the Order that run_with_replay constructs for a NEW row
backtest_order(row) == with_user_data(row_order(row), <<>>)

\* the object of a submitted order once add_order returned: the matching wrote
\* what is left of it into remaining_quantity
submitted(order, new_events) ==
  [order EXCEPT !.remaining_quantity = @ - trade_volume(new_events)]

\* the locals of one turn of the loop
Turn(b, s, refs, st, ev, fl, status) ==
  [book |-> b, strategy |-> s, refs |-> refs, stats |-> st, events |-> ev, fills |-> fl,
   status |-> status]

RECURSIVE strategy_on_fill(_, _)
\* self.strategy.on_fill(trade_events): the order on_fill decrements is the
\* object the book holds
strategy_on_fill(t, trade_events) ==
  IF trade_events = <<>> THEN t
  ELSE LET event == trade_events[1]
       IN IF event.order_id \in DOMAIN t.strategy.open_orders
          THEN strategy_on_fill(
                 CHOOSE x \in
                   {[t EXCEPT !.strategy =
                                maker_on_fill([@ EXCEPT !.open_orders[event.order_id] = order],
                                              event),
                              !.book.heap[oid].remaining_quantity = @ - event.quantity] :
                      <<oid, order>> \in {<<t.refs[event.order_id],
                                            t.book.heap[t.refs[event.order_id]]>>}} : TRUE,
                 Tail(trade_events))
          ELSE strategy_on_fill(t, Tail(trade_events))

\* the branch of a cancel carrier: cancel_order of the original id if the
\* strategy still holds it; a cancel returns no TRADE event
cancel_strategy_order(t, strategy_order) ==
  IF orig_id(strategy_order.order_id) \in DOMAIN t.strategy.open_orders
  THEN CHOOSE x \in
         {[t EXCEPT !.book = r.book, !.events = @ \o r.events] :
            r \in {cancel_order(t.book, orig_id(strategy_order.order_id))}} : TRUE
  ELSE t

\* the branch of any other strategy order: add_order, then on_fill with the
\* TRADE events it returned
submit_strategy_order(t, strategy_order) ==
  CHOOSE x \in
    {IF r.status # "returned"
     THEN [t EXCEPT !.book = r.book, !.fills = @ \o r.fills, !.status = r.status]
     ELSE strategy_on_fill(
            [t EXCEPT !.book = [r.book EXCEPT !.heap =
                                  PutKey(@, t.refs[strategy_order.order_id],
                                         submitted(strategy_order, r.events))],
                      !.stats = update_stats(@, strategy_order, r.events, r.status),
                      !.events = @ \o r.events,
                      !.fills = @ \o r.fills],
            Trades(r.events)) :
       r \in {add_order(t.book, strategy_order, t.refs[strategy_order.order_id])}} : TRUE

RECURSIVE process_strategy_orders(_, _)
\* for strategy_order in strategy_orders
process_strategy_orders(t, strategy_orders) ==
  IF strategy_orders = <<>> \/ t.status # "returned" THEN t
  ELSE process_strategy_orders(
         IF is_cancel(strategy_orders[1])
         THEN cancel_strategy_order(t, strategy_orders[1])
         ELSE submit_strategy_order(t, strategy_orders[1]),
         Tail(strategy_orders))

RECURSIVE hold(_, _, _)
\* the objects of the orders on_market_data created and put into open_orders,
\* numbered from oid on
hold(t, strategy_orders, oid) ==
  IF strategy_orders = <<>> THEN t
  ELSE IF is_cancel(strategy_orders[1]) THEN hold(t, Tail(strategy_orders), oid)
  ELSE hold([t EXCEPT !.refs = PutKey(@, strategy_orders[1].order_id, oid),
                      !.book.heap = PutKey(@, oid, strategy_orders[1])],
            Tail(strategy_orders), oid + 1)

\* the turn of the loop for a NEW row inside the window: the historical order,
\* the mid price, the strategy's orders; oid is the first free object
new_row(t, row, oid) ==
  CHOOSE x \in
    {IF r.status # "returned"
     THEN [t EXCEPT !.book = r.book, !.fills = r.fills, !.status = r.status]
     ELSE CHOOSE y \in
            {process_strategy_orders(
               hold([t EXCEPT !.book = mid.book,
                              !.strategy = called.s,
                              !.stats = update_stats(@, backtest_order(row), r.events, r.status),
                              !.events = r.events,
                              !.fills = r.fills],
                    called.orders, oid + 1),
               called.orders) :
               <<mid, called>> \in
                 {<<m, maker_on_market_data(t.strategy, row.ts, m.value)>> :
                    m \in {get_mid_price(r.book)}}} : TRUE :
       r \in {add_order(t.book, backtest_order(row), oid)}} : TRUE

\* BacktestEngine.run_with_replay up to its loop: ts is the ts of the last row
\* read and n the number of rows read (the rows are sorted by ts); trades keeps
\* every TRADE event the book returned
run_with_replay ==
  [pc |-> "row", ts |-> 0, n |-> 0, refs |-> <<>>, trades |-> <<>>, result |-> <<>>]

\* the BacktestResult run_with_replay returns, without its price fields
BacktestResult(s) ==
  [strategy_name |-> s.name, filled_quantity |-> s.executed_quantity,
   num_trades |-> s.num_trades]

\* ---- SpecBacktest: one run of run_with_replay with a MarketMakerStrategy --------
\* Prices are whole numbers of a unit fine enough for every mid price and quote
\* of a run to be exact. The row read n-th carries the order_id ("csv", n).
BacktestPrices == {1024, 3072}

BacktestStrategies ==
  {MarketMakerStrategy(1, MaxBacktestTs, 5000, order_size, max_inventory, 0) :
     order_size \in 1..2, max_inventory \in 1..MaxInventory}

InitBacktest ==
  /\ bids = EmptyLevels
  /\ asks = EmptyLevels
  /\ orders = <<>>
  /\ heap = <<>>
  /\ nextOid = 1
  /\ stats = [total_orders |-> 0, total_trades |-> 0, total_volume |-> 0]
  /\ events = <<>>
  /\ fills = <<>>
  /\ lastOp = [op |-> "none"]
  /\ outcome = "idle"
  /\ adder = [pc |-> "idle"]
  /\ canceller = [pc |-> "idle"]
  /\ reader = [pc |-> "idle"]
  /\ strategy \in BacktestStrategies
  /\ calls = <<>>
  /\ engine = run_with_replay

\* the objects the book or the strategy still references
Held(t) == Live(t.book) \cup {t.refs[id] : id \in DOMAIN t.strategy.open_orders}

\* the state a turn of the loop leaves behind
ApplyTurn(t, row) ==
  /\ bids' = t.book.bids
  /\ asks' = t.book.asks
  /\ orders' = t.book.orders
  /\ heap' = [o \in Held(t) |-> t.book.heap[o]]
  /\ stats' = t.stats
  /\ strategy' = t.strategy
  /\ events' = t.events
  /\ fills' = t.fills
  /\ outcome' = t.status
  /\ lastOp' = [op |-> "row", row |-> row]
  /\ engine' = [engine EXCEPT !.pc = IF t.status = "returned" THEN "row" ELSE t.status,
                              !.ts = row.ts,
                              !.n = @ + 1,
                              !.refs = [id \in DOMAIN t.strategy.open_orders |-> t.refs[id]],
                              !.trades = @ \o Trades(t.events)]

\* a row before the strategy's window: if ts < self.strategy.start_ts: continue
BacktestSkip ==
  /\ engine.pc = "row"
  /\ engine.n < MaxBacktestRows
  /\ \E ts \in engine.ts..MaxBacktestTs + 1 :
       /\ ts < strategy.start_ts
       /\ engine' = [engine EXCEPT !.ts = ts, !.n = @ + 1]
  /\ UNCHANGED <<bids, asks, orders, heap, nextOid, stats, events, fills, lastOp, outcome,
                 threads, strategy, calls>>

\* one turn of the loop for a NEW row
BacktestNew ==
  /\ engine.pc = "row"
  /\ engine.n < MaxBacktestRows
  /\ \E ts \in engine.ts..MaxBacktestTs + 1, side \in Sides, price \in BacktestPrices,
        qty \in Quantities :
       /\ ts >= strategy.start_ts
       /\ ~(ts > strategy.end_ts /\ maker_is_done(strategy))
       /\ \E row \in {NewRow(ts, side, price, qty, <<"csv", engine.n + 1>>)} :
            \E t \in {new_row(Turn(CurrentBook, strategy, engine.refs, stats, <<>>, <<>>,
                                   "returned"),
                              row, nextOid)} :
              ApplyTurn(t, row)
  /\ nextOid' = nextOid + 3
  /\ UNCHANGED <<threads, calls>>

\* one turn of the loop for a CANCEL row: self.book.cancel_order(order_id)
BacktestCancel ==
  /\ engine.pc = "row"
  /\ engine.n < MaxBacktestRows
  /\ \E ts \in engine.ts..MaxBacktestTs + 1, k \in 1..engine.n :
       /\ ts >= strategy.start_ts
       /\ ~(ts > strategy.end_ts /\ maker_is_done(strategy))
       /\ \E row \in {CancelRow(ts, <<"csv", k>>)} :
            \E r \in {cancel_order(CurrentBook, row.order_id)} :
              ApplyTurn(Turn(r.book, strategy, engine.refs, stats, r.events, <<>>, r.status),
                        row)
  /\ UNCHANGED <<nextOid, threads, calls>>

\* the rows are exhausted, or the loop breaks at a row past the window of a
\* strategy that is done: run_with_replay returns its BacktestResult
BacktestReturn ==
  /\ engine.pc = "row"
  /\ engine' = [engine EXCEPT !.pc = "done", !.result = BacktestResult(strategy)]
  /\ UNCHANGED <<bids, asks, orders, heap, nextOid, stats, events, fills, lastOp, outcome,
                 threads, strategy, calls>>

NextBacktest == BacktestSkip \/ BacktestNew \/ BacktestCancel \/ BacktestReturn

SpecBacktest == InitBacktest /\ [][NextBacktest]_vars

\* ---- C39 ------------------------------------------------------------------------
\* the TRADE events in which an order of the given kind took part, as taker
\* (order_id) or as resting maker (matched_order_id)
TradesOf(evs, kinds) ==
  SelectSeq(evs, LAMBDA e : e.order_id[1] \in kinds \/ e.matched_order_id[1] \in kinds)

\* C39: in a BacktestEngine run, between the turns of the loop, the strategy's
\* executed_quantity equals the total quantity of the TRADE events in which one
\* of its orders took part as taker or as resting maker, and the market maker's
\* inventory equals the quantity its bids traded minus the quantity its asks
\* traded.
C39_StrategyBookkeepingMatchesBook ==
  engine.pc \in {"row", "done"} =>
    /\ strategy.executed_quantity
         = SumQuantity(TradesOf(engine.trades, {"MarketMaker-bid", "MarketMaker-ask"}))
    /\ strategy.inventory
         = SumQuantity(TradesOf(engine.trades, {"MarketMaker-bid"}))
           - SumQuantity(TradesOf(engine.trades, {"MarketMaker-ask"}))

\* ---- C40 ------------------------------------------------------------------------
\* the objects in the queues of the book
Resting(b) ==
  UNION {Range(b.bids.levels[i].q) : i \in DOMAIN b.bids.levels}
  \cup UNION {Range(b.asks.levels[i].q) : i \in DOMAIN b.asks.levels}

\* C40: no two orders resting in the book share an order_id, the quotes a
\* market maker creates at one timestamp included.
C40_RestingIdsUnique ==
  \A o1 \in Resting(CurrentBook), o2 \in Resting(CurrentBook) :
    o1 # o2 => heap[o1].order_id # heap[o2].order_id

====
